---- MODULE Spec2Model ----
(***************************************************************************)
(* Household chore board (ardnico/order_system): the task status machine,  *)
(* the points ledger, reward redemption, the recurring rule runner and     *)
(* meal-plan day materialisation, modelled from src/app/main.py.           *)
(*                                                                         *)
(* Every request handler is one action.  A handler works on in-memory      *)
(* copies of the rows it loaded; the rows reach the database only at       *)
(* session.commit(), and a handler that returns without committing leaves  *)
(* the database as it was (src/app/db.py, get_session).                    *)
(***************************************************************************)
EXTENDS Integers, Sequences, FiniteSets, TLC

VARIABLES
    today,        \* date.today(), as a day number
    users,        \* User rows, id = index
    tasks,        \* Task rows, id = index
    txs,          \* PointTransaction rows, id = index
    rewardUses,   \* RewardUse rows, id = index
    templates,    \* TaskTemplate rows, id -> row (rows can be deleted)
    rules,        \* RecurringTaskRule rows, id = index
    plans,        \* MealPlan rows, id = index
    days,         \* MealPlanDay rows, id = index
    selections,   \* MealPlanSelection rows (a set)
    households,   \* Household rows, id = index
    isolation,    \* how the configured database isolates sessions
    inflight,     \* task action requests that have loaded their task and not yet committed
    menus,        \* Menu rows, id -> row (rows can be deleted)
    menuLines,    \* MenuIngredient rows, id -> row
    ingredients,  \* Ingredient rows, id -> row
    dishTypes,    \* DishType rows, id -> row (rows can be deleted)
    last          \* the last request and what it was answered with

vars == <<today, users, tasks, txs, rewardUses, templates, rules, plans, days,
          selections, households, isolation, inflight, menus, menuLines, ingredients,
          dishTypes, last>>

\* the tables of the menu book
kitchen == <<menus, menuLines, ingredients, dishTypes>>

----------------------------------------------------------------------------
(* Bounds of the model *)

MaxTasks == 2
MaxRewardUses == 2
MaxLedgerRows == 2
MaxTemplates == 1
MaxRules == 2
MaxDay == 3
MaxPlans == 2
MaxPlanDate == 3
MaxInflight == 2
MaxUsers == 5
MaxHouseholds == 3
MaxRaceTasks == 1
MaxMenus == 6
MaxIngredients == 6
MaxMenuLines == 7
MaxTemplateId == 3
MaxDishTypes == 12

(* Python's None for Optional[int] columns and form fields *)
None == -99

(* Values submitted in forms *)
ProposedValues == {2}
SuppliedValues == {None, 0, 1}
CostValues == {-2, 0, 3}

----------------------------------------------------------------------------
(* Enumerations of src/app/models.py *)

TaskStatus == {"open", "assigned", "in_progress", "completed", "approved", "cancelled"}
RewardStatus == {"pending", "approved", "rejected"}
PointTransactionType == {"earn", "spend", "adjust"}
RecurringFrequency == {"daily", "weekly", "monthly"}
MealSlot == {"lunch", "dinner"}

(* The action names a form can carry; "bogus" stands for any other string *)
TaskActions == {"claim", "start", "complete", "approve", "cancel", "bogus"}
RewardActions == {"approve", "reject", "bogus"}

----------------------------------------------------------------------------
(* Python helpers *)

\* x or y: the first operand unless it is falsy (None or 0)
Or(x, y) == IF x # None /\ x # 0 THEN x ELSE y

\* abs()
Abs(x) == IF x < 0 THEN -x ELSE x

UserIds == 1..Len(users)
HouseholdOf(u) == users[u].household_id

\* What a request was answered with: "ok", the flash error, or "404"
Answer(resp) == [resp |-> resp]

----------------------------------------------------------------------------
(* The database session *)

\* session.commit(): the in-memory rows become the persisted rows
Commit(persisted, inmemory) == inmemory

\* A session whose pending changes are written out when it is closed
RollbackFlushes(persisted, inmemory) == inmemory

\* leaving `with Session(engine)` without a commit: in-memory changes are lost
Rollback(persisted, inmemory) == persisted

----------------------------------------------------------------------------
(* Rows, keys and strings *)

SetMax(S) == CHOOSE m \in S : \A x \in S : x <= m
SetMin(S) == CHOOSE m \in S : \A x \in S : m <= x

\* A new primary key: one more than the largest in the table (SQLite rowid)
NewId(table) == IF DOMAIN table = {} THEN 1 ELSE SetMax(DOMAIN table) + 1

InsertRow(table, row) ==
    [i \in DOMAIN table \cup {NewId(table)} |-> IF i \in DOMAIN table THEN table[i] ELSE row]

DeleteRow(table, id) == [i \in DOMAIN table \ {id} |-> table[i]]

\* Optional[str] = None, for form fields that are strings (sequences of characters)
NoStr == <<"None">>

\* a string is truthy unless it is None or empty
Truthy(s) == s # NoStr /\ s # <<>>

\* x or y, on strings
StrOr(x, y) == IF Truthy(x) THEN x ELSE y

RECURSIVE StripLeft(_)
StripLeft(s) == IF s # <<>> /\ Head(s) = " " THEN StripLeft(Tail(s)) ELSE s

RECURSIVE StripRight(_)
StripRight(s) ==
    IF s # <<>> /\ s[Len(s)] = " " THEN StripRight(SubSeq(s, 1, Len(s) - 1)) ELSE s

\* str.strip()
Strip(s) == StripRight(StripLeft(s))

\* str.lower()
Lower(s) == [i \in 1..Len(s) |-> IF s[i] = "A" THEN "a" ELSE IF s[i] = "B" THEN "b" ELSE s[i]]

\* str(x) of an Optional[str]: str(None) is the text None
Str(x) == IF x = NoStr THEN <<"N", "o", "n", "e">> ELSE x

\* how str() writes the floats a quantity can be, and how a whole number is typed
FloatTexts == <<"1.0", "2.0", "3.0">>
IntTexts == <<"1", "2", "3">>

\* str(float)
FloatStr(q) == IF q \in 1..Len(FloatTexts) THEN FloatTexts[q] ELSE "0.0"

\* float(qty_raw), 0 where it raises ValueError
Float(qty_raw) ==
    IF \E q \in 1..Len(FloatTexts) : qty_raw \in {FloatTexts[q], IntTexts[q]}
    THEN CHOOSE q \in 1..Len(FloatTexts) : qty_raw \in {FloatTexts[q], IntTexts[q]}
    ELSE 0

----------------------------------------------------------------------------
(* The menu book: dish types, unit options, ingredients, menus and their lines *)

\* seed_household_dish_types, the defaults.  A DishType row holds its name as the
\* place of the name in this list
DishTypeNames == <<"Main", "Soup", "Side", "Salad">>

\* the ids a household's dish types got when it was created: 4(h-1)+1 .. 4h
DishTypeId(household_id, k) == (household_id - 1) * Len(DishTypeNames) + k

\* get_dish_types, as ids
get_dish_types(dt, household_id) == {d \in DOMAIN dt : dt[d].household_id = household_id}

\* dish_types.get(name) of {d.name: d for d in get_dish_types(...)}: the id, or None
DishTypeNamed(dt, household_id, name) ==
    LET found == {d \in get_dish_types(dt, household_id) : dt[d].name = name}
    IN  IF found = {} THEN None ELSE SetMax(found)

RECURSIVE SeedDishTypesFrom(_, _, _)
SeedDishTypesFrom(i, dt, household_id) ==
    IF i > Len(DishTypeNames)
    THEN dt
    ELSE SeedDishTypesFrom(i + 1,
             IF DishTypeNamed(dt, household_id, i) # None
             THEN dt
             ELSE InsertRow(dt, [household_id |-> household_id, name |-> i]),
             household_id)

\* seed_household_dish_types: the defaults the household lacks are added
seed_household_dish_types(dt, household_id) == SeedDishTypesFrom(1, dt, household_id)

\* get_unit_options: the names of the household's active unit options (two of the
\* seeded ones); a menu line's unit_option_id is written as the option's name
get_unit_options(household_id) == {<<"g">>, <<"ml">>}

\* the four tables as one value
Kitchen ==
    [menus |-> menus, menuLines |-> menuLines, ingredients |-> ingredients,
     dishTypes |-> dishTypes]

IngredientsWith(ing, household_id, name, unit) ==
    {i \in DOMAIN ing : /\ ing[i].household_id = household_id
                        /\ ing[i].name = name
                        /\ ing[i].unit = unit}

\* an ingredient that is added without a look for the one that is there
add_ingredient(ing, household_id, name, unit) ==
    [ingredients |-> InsertRow(ing, [household_id |-> household_id,
                                     name |-> name, unit |-> unit]),
     id |-> NewId(ing)]

\* get_or_create_ingredient: the Ingredient table it leaves and the row's id
get_or_create_ingredient(ing, household_id, name, unit) ==
    IF IngredientsWith(ing, household_id, name, unit) # {}
    THEN [ingredients |-> ing, id |-> SetMin(IngredientsWith(ing, household_id, name, unit))]
    ELSE [ingredients |-> InsertRow(ing, [household_id |-> household_id,
                                          name |-> name, unit |-> unit]),
          id |-> NewId(ing)]

\* one MenuIngredient row added for an ingredient found or created
AddLine(k, menu_id, household_id, name, quantity, unit, unit_option) ==
    LET g == get_or_create_ingredient(k.ingredients, household_id, name, unit)
    IN  [k EXCEPT !.ingredients = g.ingredients,
                  !.menuLines = InsertRow(k.menuLines,
                                    [menu_id |-> menu_id, ingredient_id |-> g.id,
                                     quantity |-> quantity, unit_option |-> unit_option])]

\* unit_lookup.get(unit): the unit option of that name, if any
UnitOptionFor(household_id, unit) ==
    IF unit \in get_unit_options(household_id) THEN unit ELSE NoStr

\* seed_default_menus, the sample menus (two of the ten)
Samples ==
    << [name |-> <<"miso soup">>, dish_type |-> 2,
        ingredients |-> << [name |-> <<"miso">>, quantity |-> 3, unit |-> <<"g">>] >>],
       [name |-> <<"grilled fish">>, dish_type |-> 1,
        ingredients |-> << [name |-> <<"salt">>, quantity |-> 2, unit |-> <<"g">>] >>] >>

RECURSIVE SeedLinesFrom(_, _, _, _, _)
SeedLinesFrom(i, k, menu_id, household_id, rows) ==
    IF i > Len(rows)
    THEN k
    ELSE SeedLinesFrom(i + 1,
             AddLine(k, menu_id, household_id, rows[i].name, rows[i].quantity,
                     rows[i].unit, UnitOptionFor(household_id, rows[i].unit)),
             menu_id, household_id, rows)

NewMenu(household_id, name, dish_type_id) ==
    [household_id |-> household_id, name |-> name, dish_type_id |-> dish_type_id]

RECURSIVE SeedMenusFrom(_, _, _)
SeedMenusFrom(i, k, household_id) ==
    IF i > Len(Samples)
    THEN k
    ELSE SeedMenusFrom(i + 1,
             SeedLinesFrom(1,
                 [k EXCEPT !.menus = InsertRow(k.menus,
                      NewMenu(household_id, Samples[i].name,
                              DishTypeNamed(k.dishTypes, household_id,
                                            Samples[i].dish_type)))],
                 NewId(k.menus), household_id, Samples[i].ingredients),
             household_id)

\* seed_default_menus: the dish types, and nothing more when the household has a menu
seed_default_menus(k, household_id) ==
    LET seeded == [k EXCEPT !.dishTypes = seed_household_dish_types(@, household_id)]
    IN  IF \E m \in DOMAIN k.menus : k.menus[m].household_id = household_id
        THEN seeded
        ELSE SeedMenusFrom(1, seeded, household_id)

\* ensure_meal_seed_data and ensure_household_defaults: the default dish types and
\* menus; unit options and the default meal set are there since the household was
\* created
ensure_meal_seed_data(k, household_id) ==
    seed_default_menus([k EXCEPT !.dishTypes = seed_household_dish_types(@, household_id)],
                       household_id)

\* the handler's calls of ensure_household_defaults / ensure_meal_seed_data
EnsureDefaults(household_id) ==
    \E k \in {ensure_meal_seed_data(Kitchen, household_id)} :
        /\ menus' = k.menus
        /\ menuLines' = k.menuLines
        /\ ingredients' = k.ingredients
        /\ dishTypes' = k.dishTypes

EmptyKitchen == [menus |-> <<>>, menuLines |-> <<>>, ingredients |-> <<>>, dishTypes |-> <<>>]

\* both households of the initial state were seeded when they registered
SeededKitchen == ensure_meal_seed_data(ensure_meal_seed_data(EmptyKitchen, 1), 2)

\* get_menus_for_household, as ids
get_menus_for_household(mn, household_id) ==
    {m \in DOMAIN mn : mn[m].household_id = household_id}

\* the MenuIngredient rows of a menu
LinesOf(lines, menu_id) == {l \in DOMAIN lines : lines[l].menu_id = menu_id}

Without(table, ids) == [i \in DOMAIN table \ ids |-> table[i]]

RECURSIVE SaveLinesFrom(_, _, _, _, _)
\* save_menu_ingredients, the loop over zip(names, quantities, units)
SaveLinesFrom(i, k, menu_id, household_id, rows) ==
    IF i > Len(rows)
    THEN k
    ELSE LET cleaned == Strip(rows[i].name)
             qty == Float(rows[i].quantity)
             unit_clean == IF Truthy(rows[i].unit) THEN Strip(rows[i].unit) ELSE <<>>
             unit_option == IF unit_clean # <<>>
                            THEN UnitOptionFor(household_id, unit_clean) ELSE NoStr
         IN  IF cleaned = <<>>
             THEN SaveLinesFrom(i + 1, k, menu_id, household_id, rows)
             ELSE SaveLinesFrom(i + 1,
                     AddLine(k, menu_id, household_id, cleaned, qty,
                             IF unit_option # NoStr THEN unit_option
                             ELSE IF unit_clean # <<>> THEN unit_clean ELSE NoStr,
                             unit_option),
                     menu_id, household_id, rows)

\* a save that keeps the lines the menu had
append_menu_ingredients(k, menu_id, rows, household_id) ==
    SaveLinesFrom(1, k, menu_id, household_id, rows)

\* save_menu_ingredients: the menu's lines are deleted and written anew
save_menu_ingredients(k, menu_id, rows, household_id) ==
    SaveLinesFrom(1, [k EXCEPT !.menuLines = Without(k.menuLines, LinesOf(k.menuLines, menu_id))],
                  menu_id, household_id, rows)

\* POST /menus: the tables and the answer it leaves
create_menu(u, name, dish_type_id, rows) ==
    LET k == ensure_meal_seed_data(Kitchen, HouseholdOf(u))
        cleaned_name == Strip(name)
        dish_type_val == IF dish_type_id \in get_dish_types(k.dishTypes, HouseholdOf(u))
                         THEN dish_type_id ELSE None
    IN  IF cleaned_name = <<>>
        THEN [kitchen |-> k, resp |-> "Menu name required"]
        ELSE [kitchen |->
                 save_menu_ingredients(
                     [k EXCEPT !.menus = InsertRow(k.menus,
                          NewMenu(HouseholdOf(u), cleaned_name, dish_type_val))],
                     NewId(k.menus), rows, HouseholdOf(u)),
              resp |-> "Menu created"]

\* the tables a handler leaves become the tables
SetKitchen(k) ==
    /\ menus' = k.menus
    /\ menuLines' = k.menuLines
    /\ ingredients' = k.ingredients
    /\ dishTypes' = k.dishTypes

\* primary keys stay within the bounds of the model
WithinBounds(k) ==
    /\ \A d \in DOMAIN k.dishTypes : d <= MaxDishTypes
    /\ \A m \in DOMAIN k.menus : m <= MaxMenus
    /\ \A l \in DOMAIN k.menuLines : l <= MaxMenuLines
    /\ \A i \in DOMAIN k.ingredients : i <= MaxIngredients

CreateMenu(u, name, dish_type_id, rows) ==
    /\ \E r \in {create_menu(u, name, dish_type_id, rows)} :
           /\ WithinBounds(r.kitchen)
           /\ SetKitchen(r.kitchen)
           /\ last' = Answer(r.resp)
    /\ UNCHANGED <<today, users, tasks, txs, rewardUses, templates, rules, plans, days, selections, households, isolation, inflight>>

\* POST /menus/{menu_id}/edit: the tables and the answer it leaves
update_menu(u, menu_id, name, dish_type_id, rows) ==
    IF menu_id \notin DOMAIN menus \/ menus[menu_id].household_id # HouseholdOf(u)
    THEN [kitchen |-> Kitchen, resp |-> "Menu not found"]
    ELSE [kitchen |->
             save_menu_ingredients(
                 [Kitchen EXCEPT
                     !.menus[menu_id].name =
                         IF Strip(name) # <<>> THEN Strip(name) ELSE @,
                     !.menus[menu_id].dish_type_id =
                         IF dish_type_id \in get_dish_types(dishTypes, HouseholdOf(u))
                         THEN dish_type_id ELSE @],
                 menu_id, rows, HouseholdOf(u)),
          resp |-> "Menu updated"]

UpdateMenu(u, menu_id, name, dish_type_id, rows) ==
    /\ \E r \in {update_menu(u, menu_id, name, dish_type_id, rows)} :
           /\ WithinBounds(r.kitchen)
           /\ SetKitchen(r.kitchen)
           /\ last' = Answer(r.resp)
    /\ UNCHANGED <<today, users, tasks, txs, rewardUses, templates, rules, plans, days, selections, households, isolation, inflight>>

\* POST /menus/{menu_id}/delete: the tables and the answer it leaves
delete_menu(u, menu_id) ==
    IF menu_id \notin DOMAIN menus \/ menus[menu_id].household_id # HouseholdOf(u)
    THEN [kitchen |-> Kitchen, resp |-> "Menu not found"]
    ELSE [kitchen |-> [Kitchen EXCEPT
                          !.menuLines = Without(menuLines, LinesOf(menuLines, menu_id)),
                          !.menus = DeleteRow(menus, menu_id)],
          resp |-> "Menu deleted"]

DeleteMenu(u, menu_id) ==
    /\ \E r \in {delete_menu(u, menu_id)} :
           /\ SetKitchen(r.kitchen)
           /\ last' = Answer(r.resp)
    /\ UNCHANGED <<today, users, tasks, txs, rewardUses, templates, rules, plans, days, selections, households, isolation, inflight>>

\* POST /ingredients: the tables and the answer it leaves
create_ingredient(u, name, unit) ==
    LET k == ensure_meal_seed_data(Kitchen, HouseholdOf(u))
        cleaned == Strip(name)
        unit_val == IF Truthy(unit) THEN Strip(unit) ELSE NoStr
    IN  IF cleaned = <<>>
        THEN [kitchen |-> k, resp |-> "Name required"]
        ELSE [kitchen |-> [k EXCEPT !.ingredients =
                             get_or_create_ingredient(k.ingredients, HouseholdOf(u),
                                                      cleaned, unit_val).ingredients],
              resp |-> "Ingredient saved"]

CreateIngredient(u, name, unit) ==
    /\ \E r \in {create_ingredient(u, name, unit)} :
           /\ WithinBounds(r.kitchen)
           /\ SetKitchen(r.kitchen)
           /\ last' = Answer(r.resp)
    /\ UNCHANGED <<today, users, tasks, txs, rewardUses, templates, rules, plans, days, selections, households, isolation, inflight>>

\* a count that finds no line
ingredient_usage_none(k, household_id, ingredient_id) == 0

\* ingredient_usage_counts(session, household_id).get(ingredient_id, 0): the lines of
\* the household's menus that use the ingredient
ingredient_usage_counts(k, household_id, ingredient_id) ==
    Cardinality({l \in DOMAIN k.menuLines :
                    /\ k.menuLines[l].menu_id \in DOMAIN k.menus
                    /\ k.menus[k.menuLines[l].menu_id].household_id = household_id
                    /\ k.menuLines[l].ingredient_id = ingredient_id})

\* POST /ingredients/{ingredient_id}/delete: the tables and the answer it leaves
delete_ingredient(u, ingredient_id) ==
    IF \/ ingredient_id \notin DOMAIN ingredients
       \/ ingredients[ingredient_id].household_id # HouseholdOf(u)
    THEN [kitchen |-> Kitchen, resp |-> "Ingredient not found"]
    ELSE IF ingredient_usage_counts(Kitchen, HouseholdOf(u), ingredient_id) > 0
    THEN [kitchen |-> Rollback(Kitchen, Kitchen), resp |-> "ingredients.deleteBlocked"]
    ELSE [kitchen |-> [Kitchen EXCEPT !.ingredients = DeleteRow(ingredients, ingredient_id)],
          resp |-> "Ingredient deleted"]

DeleteIngredient(u, ingredient_id) ==
    /\ \E r \in {delete_ingredient(u, ingredient_id)} :
           /\ SetKitchen(r.kitchen)
           /\ last' = Answer(r.resp)
    /\ UNCHANGED <<today, users, tasks, txs, rewardUses, templates, rules, plans, days, selections, households, isolation, inflight>>

RECURSIVE InIdOrder(_)
\* the ids of a query result as a list, in id order
InIdOrder(S) ==
    IF S = {} THEN <<>> ELSE <<SetMin(S)>> \o InIdOrder(S \ {SetMin(S)})

\* export_household_data, the "ingredients" of one menu: the join drops a line
\* whose ingredient is gone; the unit is the line's unit option or else the
\* ingredient's unit
ExportLines(k, menu_id) ==
    LET ids == InIdOrder({l \in LinesOf(k.menuLines, menu_id) :
                             k.menuLines[l].ingredient_id \in DOMAIN k.ingredients})
    IN  [i \in 1..Len(ids) |->
            [name |-> k.ingredients[k.menuLines[ids[i]].ingredient_id].name,
             quantity |-> Or(k.menuLines[ids[i]].quantity, 0),
             unit |-> StrOr(k.menuLines[ids[i]].unit_option,
                            k.ingredients[k.menuLines[ids[i]].ingredient_id].unit)]]

\* export_household_data: session.get(DishType, menu.dish_type_id) is None for a
\* menu of the household, and .name raises AttributeError
ExportRaises(k, household_id) ==
    \E m \in get_menus_for_household(k.menus, household_id) :
        /\ Or(k.menus[m].dish_type_id, None) # None
        /\ k.menus[m].dish_type_id \notin DOMAIN k.dishTypes

\* export_household_data: the parts of the payload that describe the menu book.
\* A dish type is written by its name; rows of one name come in id order
export_household_data(k, household_id) ==
    LET ings == InIdOrder({i \in DOMAIN k.ingredients :
                              k.ingredients[i].household_id = household_id})
        mns == InIdOrder(get_menus_for_household(k.menus, household_id))
    IN  [dish_types |-> {k.dishTypes[d].name : d \in get_dish_types(k.dishTypes, household_id)},
         ingredients |-> [i \in 1..Len(ings) |->
                             [name |-> k.ingredients[ings[i]].name,
                              unit |-> k.ingredients[ings[i]].unit]],
         menus |-> [i \in 1..Len(mns) |->
                       [name |-> k.menus[mns[i]].name,
                        dish_type |-> IF Or(k.menus[mns[i]].dish_type_id, None) = None
                                      THEN None
                                      ELSE k.dishTypes[k.menus[mns[i]].dish_type_id].name,
                        ingredients |-> ExportLines(k, mns[i])]]]

\* POST /settings/dish-types/{dish_type_id}/delete: the tables and the answer it
\* leaves; the menus that refer to the dish type are left as they are
delete_dish_type(u, dish_type_id) ==
    IF dish_type_id \notin get_dish_types(dishTypes, HouseholdOf(u))
    THEN [kitchen |-> Kitchen, resp |-> "Dish type not found"]
    ELSE [kitchen |-> [Kitchen EXCEPT !.dishTypes = DeleteRow(dishTypes, dish_type_id)],
          resp |-> "Dish type deleted"]

DeleteDishType(u, dish_type_id) ==
    /\ \E r \in {delete_dish_type(u, dish_type_id)} :
           /\ SetKitchen(r.kitchen)
           /\ last' = Answer(r.resp)
    /\ UNCHANGED <<today, users, tasks, txs, rewardUses, templates, rules, plans, days, selections, households, isolation, inflight>>

\* export_household_data, "recurring_rules": the rules of the household whose
\* template is still there
ExportRules(tp, rl, household_id) ==
    LET kept == SelectSeq([r \in 1..Len(rl) |-> r],
                          LAMBDA r : /\ rl[r].household_id = household_id
                                     /\ rl[r].task_template_id \in DOMAIN tp)
    IN  [i \in 1..Len(kept) |->
            [template_title |-> tp[rl[kept[i]].task_template_id].title,
             frequency |-> rl[kept[i]].frequency,
             next_run_date |-> rl[kept[i]].next_run_date]]

\* GET /data/export: the tables ensure_household_defaults leaves, and the answer:
\* the document, or 500 where export_household_data raises
export_data(k, tp, rl, household_id) ==
    LET seeded == ensure_meal_seed_data(k, household_id)
    IN  IF ExportRaises(seeded, household_id)
        THEN [kitchen |-> seeded, resp |-> "500"]
        ELSE [kitchen |-> seeded, resp |-> "200",
              payload |-> [menu_book |-> export_household_data(seeded, household_id),
                           recurring_rules |-> ExportRules(tp, rl, household_id)]]

ExportData(u) ==
    /\ \E r \in {export_data(Kitchen, templates, rules, HouseholdOf(u))} :
           /\ WithinBounds(r.kitchen)
           /\ SetKitchen(r.kitchen)
           /\ last' = Answer(r.resp)
    /\ UNCHANGED <<today, users, tasks, txs, rewardUses, templates, rules, plans, days, selections, households, isolation, inflight>>

RECURSIVE ImportDishTypes(_, _, _)
\* import_household_data, the loop over payload["dish_types"]: the dish type of
\* that name is found, or created
ImportDishTypes(dt, household_id, names) ==
    IF names = {}
    THEN dt
    ELSE ImportDishTypes(
             IF DishTypeNamed(dt, household_id, SetMin(names)) # None
             THEN dt
             ELSE InsertRow(dt, [household_id |-> household_id, name |-> SetMin(names)]),
             household_id, names \ {SetMin(names)})

RECURSIVE ImportIngredientsFrom(_, _, _, _)
\* import_household_data, the loop over payload["ingredients"]
ImportIngredientsFrom(i, k, household_id, entries) ==
    IF i > Len(entries)
    THEN k
    ELSE LET name == Strip(Str(entries[i].name))
             unit_val == IF Truthy(entries[i].unit) THEN entries[i].unit ELSE NoStr
         IN  ImportIngredientsFrom(i + 1,
                 IF name = <<>>
                 THEN k
                 ELSE [k EXCEPT !.ingredients =
                          get_or_create_ingredient(k.ingredients, household_id,
                                                   name, unit_val).ingredients],
                 household_id, entries)

\* import_household_data, the three lists handed to save_menu_ingredients: the
\* quantity and the unit of every line go through str()
ImportedRows(lines) ==
    LET kept == SelectSeq(lines, LAMBDA ing : Strip(Str(ing.name)) # <<>>)
    IN  [i \in 1..Len(kept) |->
            [name |-> Strip(Str(kept[i].name)),
             quantity |-> FloatStr(kept[i].quantity),
             unit |-> Str(kept[i].unit)]]

RECURSIVE ImportMenusFrom(_, _, _, _, _)
\* import_household_data, the loop over payload["menus"]: the menu of that name is
\* updated, or created, and its lines are saved
ImportMenusFrom(i, k, household_id, entries, dish_types) ==
    IF i > Len(entries)
    THEN k
    ELSE LET menu_name == Strip(Str(entries[i].name))
             found == {m \in get_menus_for_household(k.menus, household_id) :
                          k.menus[m].name = menu_name}
             dish_type_id == IF entries[i].dish_type \in dish_types
                             THEN DishTypeNamed(k.dishTypes, household_id,
                                                entries[i].dish_type)
                             ELSE None
             menu_id == IF found = {} THEN NewId(k.menus) ELSE SetMin(found)
             saved == IF found = {}
                      THEN [k EXCEPT !.menus = InsertRow(k.menus,
                               NewMenu(household_id, menu_name, dish_type_id))]
                      ELSE [k EXCEPT !.menus[menu_id].dish_type_id = dish_type_id]
         IN  ImportMenusFrom(i + 1,
                 IF menu_name = <<>>
                 THEN k
                 ELSE save_menu_ingredients(saved, menu_id,
                                            ImportedRows(entries[i].ingredients),
                                            household_id),
                 household_id, entries, dish_types)

\* import_household_data: the menu book it leaves.  The other sections of the
\* payload (unit options, meal sets, categories, templates, rules, rewards) are
\* written to other tables
import_household_data(k, household_id, payload) ==
    ImportMenusFrom(1,
        ImportIngredientsFrom(1,
            [k EXCEPT !.dishTypes = ImportDishTypes(@, household_id, payload.dish_types)],
            household_id, payload.ingredients),
        household_id, payload.menus, payload.dish_types)

\* payload.get(key, [])
Get(payload, key) == IF key \in DOMAIN payload THEN payload[key] ELSE <<>>

\* select(TaskTemplate).where(household_id, title).first()
TemplatesWith(tp, household_id, title) ==
    {t \in DOMAIN tp : tp[t].household_id = household_id /\ tp[t].title = title}

RECURSIVE ImportTemplatesFrom(_, _, _, _)
\* import_household_data, the loop over payload["task_templates"]: the template of
\* that title is updated, or created
ImportTemplatesFrom(i, tp, household_id, entries) ==
    IF i > Len(entries)
    THEN tp
    ELSE LET title == Strip(Str(entries[i].title))
             found == TemplatesWith(tp, household_id, title)
         IN  ImportTemplatesFrom(i + 1,
                 IF title = <<>>
                 THEN tp
                 ELSE IF found = {}
                 THEN InsertRow(tp, [household_id |-> household_id, title |-> title,
                                     default_points |-> entries[i].default_points])
                 ELSE [tp EXCEPT ![SetMin(found)].default_points = entries[i].default_points],
                 household_id, entries)

\* import_household_data, the keys of template_map: the titles of the payload's
\* task_templates
TemplateMapKeys(tp, household_id, entries) ==
    {Strip(Str(entries[i].title)) : i \in 1..Len(entries)} \ {<<>>}

\* RecurringFrequency(freq_raw), weekly where it raises ValueError
FrequencyOf(freq_raw) == IF freq_raw \in RecurringFrequency THEN freq_raw ELSE "weekly"

\* select(RecurringTaskRule).where(household_id, task_template_id, frequency).first()
RulesWith(rl, household_id, task_template_id, frequency) ==
    {r \in 1..Len(rl) : /\ rl[r].household_id = household_id
                        /\ rl[r].task_template_id = task_template_id
                        /\ rl[r].frequency = frequency}

RECURSIVE ImportRulesFrom(_, _, _, _, _, _)
\* import_household_data, the loop over payload["recurring_rules"]: a rule whose
\* template_title is no key of template_map is skipped; the rule of that template
\* and frequency is updated, or created
ImportRulesFrom(i, rl, tp, household_id, entries, keys) ==
    IF i > Len(entries)
    THEN rl
    ELSE LET title == entries[i].template_title
             next_date == Or(entries[i].next_run_date, today)
             freq_val == FrequencyOf(entries[i].frequency)
         IN  IF ~Truthy(title) \/ title \notin keys
             THEN ImportRulesFrom(i + 1, rl, tp, household_id, entries, keys)
             ELSE LET template_id == SetMin(TemplatesWith(tp, household_id, title))
                      existing == RulesWith(rl, household_id, template_id, freq_val)
                  IN  ImportRulesFrom(i + 1,
                          IF existing = {}
                          THEN Append(rl, [household_id |-> household_id,
                                           task_template_id |-> template_id,
                                           assignee_user_id |-> None,
                                           frequency |-> freq_val,
                                           next_run_date |-> next_date,
                                           active |-> TRUE])
                          ELSE [rl EXCEPT ![SetMin(existing)].next_run_date = next_date],
                          tp, household_id, entries, keys)

\* import_household_data: the task templates and the recurring rules it leaves
import_templates_and_rules(tp, rl, household_id, payload) ==
    LET imported == ImportTemplatesFrom(1, tp, household_id, Get(payload, "task_templates"))
    IN  [templates |-> imported,
         rules |-> ImportRulesFrom(1, rl, imported, household_id,
                       Get(payload, "recurring_rules"),
                       TemplateMapKeys(imported, household_id,
                                       Get(payload, "task_templates")))]

\* POST /data/import: the tables and the answer it leaves
import_data(k, household_id, payload) ==
    [kitchen |-> import_household_data(ensure_meal_seed_data(k, household_id),
                                       household_id, payload),
     resp |-> "data.importSuccess"]

\* template ids stay within the bounds of the model
TemplatesWithin(tp) == \A t \in DOMAIN tp : t <= MaxTemplateId

ImportData(u, payload) ==
    /\ \E r \in {import_data(Kitchen, HouseholdOf(u), payload)},
          w \in {import_templates_and_rules(templates, rules, HouseholdOf(u), payload)} :
           /\ WithinBounds(r.kitchen)
           /\ TemplatesWithin(w.templates)
           /\ Len(w.rules) <= MaxRules
           /\ SetKitchen(r.kitchen)
           /\ templates' = Commit(templates, w.templates)
           /\ rules' = Commit(rules, w.rules)
           /\ last' = Answer(r.resp)
    /\ UNCHANGED <<today, users, tasks, txs, rewardUses, plans, days, selections, households, isolation, inflight>>

----------------------------------------------------------------------------
(* Tasks *)

\* a number taken from the committed rows, the pending ones not flushed
committed_order_number(tk, household_id) ==
    LET nums == {tasks[i].order_number :
                    i \in {j \in 1..Len(tasks) : tasks[j].household_id = household_id}}
    IN  (IF nums = {} THEN 0 ELSE SetMax(nums)) + 1

\* SELECT max(order_number) WHERE household_id = ..., then int(current_max or 0) + 1
next_order_number(tk, household_id) ==
    LET nums == {tk[i].order_number : i \in {j \in 1..Len(tk) : tk[j].household_id = household_id}}
    IN  (IF nums = {} THEN 0 ELSE SetMax(nums)) + 1

\* a lookup by id alone, without the household filter
get_task_unscoped(household_id, task_id) ==
    IF task_id \in 1..Len(tasks) THEN task_id ELSE None

\* The task of that id in the acting user's household, or None (answered 404)
get_task(household_id, task_id) ==
    IF task_id \in 1..Len(tasks) /\ tasks[task_id].household_id = household_id
    THEN task_id
    ELSE None

NewTask(household_id, order_number, proposed_points, created_by, assignee, template_id, day_id, slot, priority, category) ==
    [household_id |-> household_id,
     order_number |-> order_number,
     priority |-> priority,
     category |-> category,
     proposed_points |-> proposed_points,
     actual_points |-> None,
     status |-> "open",
     created_by_user_id |-> created_by,
     assignee_user_id |-> assignee,
     task_template_id |-> template_id,
     meal_plan_day_id |-> day_id,
     meal_slot |-> slot]

\* POST /tasks/new: the rows and the answer it leaves
create_task(u, proposed_points, assignee_user_id, time_ok) ==
    IF ~time_ok
    THEN [tasks |-> tasks, resp |-> "Invalid time format"]
    ELSE [tasks |-> Commit(tasks, Append(tasks,
                       NewTask(HouseholdOf(u), next_order_number(tasks, HouseholdOf(u)),
                               proposed_points, u, Or(assignee_user_id, u), None, None, "none",
                               3, "chore"))),
          resp |-> "ok"]

CreateTask(u, proposed_points, assignee_user_id, time_ok) ==
    /\ Len(tasks) < MaxTasks
    /\ \E r \in {create_task(u, proposed_points, assignee_user_id, time_ok)} :
           /\ tasks' = r.tasks
           /\ last' = Answer(r.resp)
    /\ EnsureDefaults(HouseholdOf(u))
    /\ UNCHANGED <<today, users, txs, rewardUses, templates, rules, plans, days, selections, households, isolation, inflight>>

\* POST /tasks/{task_id}/edit: the rows and the answer it leaves
edit_task(u, task_id, proposed_points, assignee_user_id, time_ok) ==
    IF get_task(HouseholdOf(u), task_id) = None
    THEN [tasks |-> tasks, resp |-> "404"]
    ELSE IF ~time_ok
    THEN [tasks |-> tasks, resp |-> "Invalid time format"]
    ELSE LET task == tasks[task_id]
             edited == [task EXCEPT
                          !.proposed_points = proposed_points,
                          !.assignee_user_id = Or(Or(assignee_user_id, task.assignee_user_id), u)]
         IN  [tasks |-> Commit(tasks, [tasks EXCEPT ![task_id] = edited]), resp |-> "ok"]

EditTask(u, task_id, proposed_points, assignee_user_id, time_ok) ==
    /\ \E r \in {edit_task(u, task_id, proposed_points, assignee_user_id, time_ok)} :
           /\ tasks' = r.tasks
           /\ last' = Answer(r.resp)
    /\ UNCHANGED <<today, users, txs, rewardUses, templates, rules, plans, days, selections, households, isolation, inflight, kitchen>>

\* a preset that defaults actual_points to proposed_points on every action
PresetActualPointsAlways(task, action, actual_points) ==
    IF actual_points # None
    THEN [task EXCEPT !.actual_points = actual_points]
    ELSE [task EXCEPT !.actual_points = task.proposed_points]

\* update_task_status, before the branches: the submitted or defaulted actual_points
PresetActualPoints(task, action, actual_points) ==
    IF actual_points # None
    THEN [task EXCEPT !.actual_points = actual_points]
    ELSE IF action \in {"claim", "start"} /\ task.actual_points = None
    THEN [task EXCEPT !.actual_points = task.proposed_points]
    ELSE task

ClaimAllowed(status) == status = "open"
StartAllowed(status) == status \in {"assigned", "open"}
CompleteAllowed(status) == status \in {"in_progress", "assigned"}
ApproveAllowed(status) == status = "completed"

\* cancel that only refuses a task already cancelled
CancelAllowedLoose(status) == status # "cancelled"

CancelAllowed(status) == status \notin {"approved", "cancelled"}

\* select(PointTransaction).where(related_task_id == task.id).first()
existing_tx(task_id) == \E i \in 1..Len(txs) : txs[i].related_task_id = task_id

\* A handler that awards points on every approve of a finished task, without
\* looking at the ledger and without refusing a task already approved
TaskBranchNaive(task, u, action, actual_points, has_tx) ==
    IF action = "claim" /\ ClaimAllowed(task.status)
    THEN [ok |-> TRUE, pay |-> FALSE,
          task |-> [task EXCEPT !.assignee_user_id = u, !.status = "assigned"]]
    ELSE IF action = "start" /\ StartAllowed(task.status)
    THEN [ok |-> TRUE, pay |-> FALSE,
          task |-> [task EXCEPT !.assignee_user_id = Or(task.assignee_user_id, u),
                                !.status = "in_progress"]]
    ELSE IF action = "complete" /\ CompleteAllowed(task.status)
    THEN [ok |-> TRUE, pay |-> FALSE,
          task |-> [task EXCEPT !.assignee_user_id = Or(task.assignee_user_id, u),
                                !.status = "completed",
                                !.actual_points = IF actual_points # None
                                                  THEN actual_points
                                                  ELSE task.actual_points]]
    ELSE IF action = "approve" /\ task.status \in {"completed", "approved"}
    THEN [ok |-> TRUE, pay |-> TRUE,
          task |-> [task EXCEPT !.status = "approved",
                                !.actual_points = Or(Or(actual_points, task.actual_points),
                                                     task.proposed_points)]]
    ELSE IF action = "cancel" /\ CancelAllowed(task.status)
    THEN [ok |-> TRUE, pay |-> FALSE, task |-> [task EXCEPT !.status = "cancelled"]]
    ELSE [ok |-> FALSE, pay |-> FALSE, task |-> task]

\* update_task_status, the if/elif chain: whether a branch was taken, the task it
\* leaves in memory, and whether a PointTransaction is added
TaskBranch(task, u, action, actual_points, has_tx) ==
    IF action = "claim" /\ ClaimAllowed(task.status)
    THEN [ok |-> TRUE, pay |-> FALSE,
          task |-> [task EXCEPT !.assignee_user_id = u, !.status = "assigned"]]
    ELSE IF action = "start" /\ StartAllowed(task.status)
    THEN [ok |-> TRUE, pay |-> FALSE,
          task |-> [task EXCEPT !.assignee_user_id = Or(task.assignee_user_id, u),
                                !.status = "in_progress"]]
    ELSE IF action = "complete" /\ CompleteAllowed(task.status)
    THEN [ok |-> TRUE, pay |-> FALSE,
          task |-> [task EXCEPT !.assignee_user_id = Or(task.assignee_user_id, u),
                                !.status = "completed",
                                !.actual_points = IF actual_points # None
                                                  THEN actual_points
                                                  ELSE task.actual_points]]
    ELSE IF action = "approve" /\ ApproveAllowed(task.status)
    THEN [ok |-> TRUE, pay |-> ~has_tx,
          task |-> [task EXCEPT !.status = "approved",
                                !.actual_points = Or(Or(actual_points, task.actual_points),
                                                     task.proposed_points)]]
    ELSE IF action = "cancel" /\ CancelAllowed(task.status)
    THEN [ok |-> TRUE, pay |-> FALSE, task |-> [task EXCEPT !.status = "cancelled"]]
    ELSE [ok |-> FALSE, pay |-> FALSE, task |-> task]

\* The PointTransaction of an approved task
TaskPayout(u, task_id, task) ==
    [household_id |-> HouseholdOf(u),
     user_id |-> Or(task.assignee_user_id, task.created_by_user_id),
     amount |-> task.actual_points,
     transaction_type |-> "earn",
     related_task_id |-> task_id,
     related_reward_use_id |-> None]

\* POST /tasks/{task_id}/action: the rows and the answer it leaves
update_task_status(u, task_id, action, actual_points) ==
    IF get_task(HouseholdOf(u), task_id) = None
    THEN [tasks |-> tasks, txs |-> txs, resp |-> "404"]
    ELSE LET preset == PresetActualPoints(tasks[task_id], action, actual_points)
             branch == TaskBranch(preset, u, action, actual_points, existing_tx(task_id))
             inmemory == [tasks EXCEPT ![task_id] = branch.task]
         IN  IF ~branch.ok
             THEN [tasks |-> Rollback(tasks, inmemory), txs |-> txs, resp |-> "Invalid action"]
             ELSE [tasks |-> Commit(tasks, inmemory),
                   txs |-> IF branch.pay
                           THEN Append(txs, TaskPayout(u, task_id, branch.task))
                           ELSE txs,
                   resp |-> "ok"]

UpdateTaskStatus(u, task_id, action, actual_points) ==
    /\ \E r \in {update_task_status(u, task_id, action, actual_points)} :
           /\ tasks' = r.tasks
           /\ txs' = r.txs
           /\ last' = Answer(r.resp)
    /\ UNCHANGED <<today, users, rewardUses, templates, rules, plans, days, selections, households, isolation, inflight, kitchen>>

----------------------------------------------------------------------------
(* Task actions from concurrent sessions *)

\* The database DATABASE_URL selects (src/app/db.py).  Under either kind a session
\* that has flushed a write holds the write lock until it commits.  "locking": a
\* query sees what is committed when it runs (SQLite, the default).
\* "snapshot": a query sees what was committed when the session first read
\* (repeatable read).
Isolations == {"locking", "snapshot"}

\* select(PointTransaction).where(related_task_id == task.id).first(), on a ledger
existing_tx_in(ledger, task_id) ==
    \E i \in 1..Len(ledger) : ledger[i].related_task_id = task_id

\* The ledger a session's query sees
VisibleTxs(req) == IF isolation = "snapshot" THEN req.seen ELSE txs

\* The session has flushed its UPDATE of the task and not yet committed
HoldsLock(req) == req.pc = "flushed"

\* The request runs the existence query of the approve branch
ReachesLookup(req) == req.action = "approve" /\ ApproveAllowed(req.task.status)

\* The smallest session number not in use
FreeSession == CHOOSE n \in 1..(Cardinality(inflight) + 1) :
                  /\ \A req \in inflight : req.session # n
                  /\ \A m \in 1..(n - 1) : \E req \in inflight : req.session = m

\* update_task_status up to get_task: the session loads the task row
BeginTaskAction(u, task_id, action, actual_points) ==
    /\ Cardinality(inflight) < MaxInflight
    /\ IF get_task(HouseholdOf(u), task_id) = None
       THEN /\ last' = Answer("404")
            /\ UNCHANGED inflight
       ELSE /\ inflight' = inflight \cup
                   {[session |-> FreeSession, u |-> u, task_id |-> task_id,
                     action |-> action, actual_points |-> actual_points,
                     task |-> tasks[task_id], seen |-> txs,
                     has_tx |-> FALSE, pc |-> "loaded"]}
            /\ UNCHANGED last
    /\ UNCHANGED <<today, users, tasks, txs, rewardUses, templates, rules, plans, days,
                   selections, households, isolation, kitchen>>

\* update_task_status, the existence query of the approve branch: the session
\* first flushes its UPDATE of the task, which waits for the write lock
LookupTaskTx(req) ==
    /\ req.pc = "loaded"
    /\ ReachesLookup(req)
    /\ \A other \in inflight \ {req} : ~HoldsLock(other)
    /\ inflight' = (inflight \ {req}) \cup
           {[req EXCEPT !.has_tx = existing_tx_in(VisibleTxs(req), req.task_id),
                        !.pc = "flushed"]}
    /\ UNCHANGED <<today, users, tasks, txs, rewardUses, templates, rules, plans, days,
                   selections, households, isolation, kitchen, last>>

\* The UPDATE a flush emits: the columns the session changed since it loaded the row
Flush(row, loaded, inmemory) ==
    [f \in DOMAIN row |-> IF inmemory[f] # loaded[f] THEN inmemory[f] ELSE row[f]]

\* a commit that inserts the payout only if the ledger has none for the task
commit_task_action_unique(req) ==
    LET preset == PresetActualPoints(req.task, req.action, req.actual_points)
        branch == TaskBranch(preset, req.u, req.action, req.actual_points, req.has_tx)
        row == Flush(tasks[req.task_id], req.task, branch.task)
    IN  IF ~branch.ok
        THEN [tasks |-> tasks, txs |-> txs, resp |-> "Invalid action"]
        ELSE [tasks |-> [tasks EXCEPT ![req.task_id] = row],
              txs |-> IF branch.pay /\ ~existing_tx_in(txs, req.task_id)
                      THEN Append(txs, TaskPayout(req.u, req.task_id, branch.task))
                      ELSE txs,
              resp |-> "ok"]

\* update_task_status from the branches to session.commit(), for a session that
\* loaded the task and did its lookup earlier: the rows and the answer it leaves
commit_task_action(req) ==
    LET preset == PresetActualPoints(req.task, req.action, req.actual_points)
        branch == TaskBranch(preset, req.u, req.action, req.actual_points, req.has_tx)
        row == Flush(tasks[req.task_id], req.task, branch.task)
    IN  IF ~branch.ok
        THEN [tasks |-> Rollback(tasks, [tasks EXCEPT ![req.task_id] = row]),
              txs |-> txs, resp |-> "Invalid action"]
        ELSE [tasks |-> Commit(tasks, [tasks EXCEPT ![req.task_id] = row]),
              txs |-> IF branch.pay
                      THEN Append(txs, TaskPayout(req.u, req.task_id, branch.task))
                      ELSE txs,
              resp |-> "ok"]

FinishTaskAction(req) ==
    /\ IF ReachesLookup(req)
       THEN req.pc = "flushed"
       ELSE \A other \in inflight \ {req} : ~HoldsLock(other)
    /\ \E r \in {commit_task_action(req)} :
           /\ tasks' = r.tasks
           /\ txs' = r.txs
           /\ last' = Answer(r.resp)
    /\ inflight' = inflight \ {req}
    /\ UNCHANGED <<today, users, rewardUses, templates, rules, plans, days, selections,
                   households, isolation, kitchen>>

----------------------------------------------------------------------------
(* Rewards *)

\* The reward use of that id in the acting user's household, or None (answered 404)
get_reward_use(household_id, reward_use_id) ==
    IF reward_use_id \in 1..Len(rewardUses)
       /\ rewardUses[reward_use_id].household_id = household_id
    THEN reward_use_id
    ELSE None

\* POST /rewards/use
request_reward_use(u, cost_points) ==
    Commit(rewardUses, Append(rewardUses,
        [household_id |-> HouseholdOf(u),
         user_id |-> u,
         cost_points |-> cost_points,
         status |-> "pending",
         approved_by_user_id |-> None,
         approved_at |-> None]))

RequestRewardUse(u, cost_points) ==
    /\ Len(rewardUses) < MaxRewardUses
    /\ rewardUses' = request_reward_use(u, cost_points)
    /\ last' = Answer("ok")
    /\ UNCHANGED <<today, users, tasks, txs, templates, rules, plans, days, selections, households, isolation, inflight, kitchen>>

RewardApproveAllowed(status) == status = "pending"

\* reject that only refuses a reward use already rejected
RewardRejectAllowedLoose(status) == status # "rejected"

RewardRejectAllowed(status) == status = "pending"

\* select(PointTransaction).where(related_reward_use_id == reward_use.id).first()
existing_reward_tx(reward_use_id) ==
    \E i \in 1..Len(txs) : txs[i].related_reward_use_id = reward_use_id

\* the amount without abs()
SpendAmountSigned(cost_points) == -cost_points

\* amount=-abs(reward_use.cost_points)
SpendAmount(cost_points) == -Abs(cost_points)

\* The PointTransaction of an approved reward use
RewardSpend(u, reward_use_id, reward_use) ==
    [household_id |-> HouseholdOf(u),
     user_id |-> reward_use.user_id,
     amount |-> SpendAmount(reward_use.cost_points),
     transaction_type |-> "spend",
     related_task_id |-> None,
     related_reward_use_id |-> reward_use_id]

\* A handler that deducts points on every approve, without looking at the status
\* or the ledger
RewardBranchNaive(reward_use, u, action, has_tx) ==
    IF action = "approve"
    THEN [ok |-> TRUE, pay |-> TRUE,
          reward_use |-> [reward_use EXCEPT !.status = "approved",
                                            !.approved_by_user_id = u,
                                            !.approved_at = today]]
    ELSE IF action = "reject" /\ RewardRejectAllowed(reward_use.status)
    THEN [ok |-> TRUE, pay |-> FALSE,
          reward_use |-> [reward_use EXCEPT !.status = "rejected"]]
    ELSE [ok |-> FALSE, pay |-> FALSE, reward_use |-> reward_use]

\* a handler that writes a ledger row for a rejected request as well
RewardBranchLogged(reward_use, u, action, has_tx) ==
    IF action = "approve" /\ RewardApproveAllowed(reward_use.status)
    THEN [ok |-> TRUE, pay |-> ~has_tx,
          reward_use |-> [reward_use EXCEPT !.status = "approved",
                                            !.approved_by_user_id = u,
                                            !.approved_at = today]]
    ELSE IF action = "reject" /\ RewardRejectAllowed(reward_use.status)
    THEN [ok |-> TRUE, pay |-> ~has_tx,
          reward_use |-> [reward_use EXCEPT !.status = "rejected"]]
    ELSE [ok |-> FALSE, pay |-> FALSE, reward_use |-> reward_use]

\* handle_reward_use, the if/elif chain
RewardBranch(reward_use, u, action, has_tx) ==
    IF action = "approve" /\ RewardApproveAllowed(reward_use.status)
    THEN [ok |-> TRUE, pay |-> ~has_tx,
          reward_use |-> [reward_use EXCEPT !.status = "approved",
                                            !.approved_by_user_id = u,
                                            !.approved_at = today]]
    ELSE IF action = "reject" /\ RewardRejectAllowed(reward_use.status)
    THEN [ok |-> TRUE, pay |-> FALSE,
          reward_use |-> [reward_use EXCEPT !.status = "rejected"]]
    ELSE [ok |-> FALSE, pay |-> FALSE, reward_use |-> reward_use]

\* POST /rewards/use/{reward_use_id}/action: the rows and the answer it leaves
handle_reward_use(u, reward_use_id, action) ==
    IF get_reward_use(HouseholdOf(u), reward_use_id) = None
    THEN [rewardUses |-> rewardUses, txs |-> txs, resp |-> "404"]
    ELSE LET branch == RewardBranch(rewardUses[reward_use_id], u, action,
                                    existing_reward_tx(reward_use_id))
             inmemory == [rewardUses EXCEPT ![reward_use_id] = branch.reward_use]
         IN  IF ~branch.ok
             THEN [rewardUses |-> Rollback(rewardUses, inmemory), txs |-> txs,
                   resp |-> "Invalid action"]
             ELSE [rewardUses |-> Commit(rewardUses, inmemory),
                   txs |-> IF branch.pay
                           THEN Append(txs, RewardSpend(u, reward_use_id, branch.reward_use))
                           ELSE txs,
                   resp |-> "ok"]

HandleRewardUse(u, reward_use_id, action) ==
    /\ \E r \in {handle_reward_use(u, reward_use_id, action)} :
           /\ rewardUses' = r.rewardUses
           /\ txs' = r.txs
           /\ last' = Answer(r.resp)
    /\ UNCHANGED <<today, users, tasks, templates, rules, plans, days, selections, households, isolation, inflight, kitchen>>

----------------------------------------------------------------------------
(* Balances *)

RECURSIVE SumAll(_)
\* the total of a ledger, whoever the rows belong to
SumAll(ledger) ==
    IF ledger = <<>> THEN 0 ELSE Head(ledger).amount + SumAll(Tail(ledger))

RECURSIVE SumWhereUser(_, _)
\* SELECT coalesce(sum(amount), 0) WHERE user_id = ...
SumWhereUser(ledger, user_id) ==
    IF ledger = <<>>
    THEN 0
    ELSE (IF Head(ledger).user_id = user_id THEN Head(ledger).amount ELSE 0)
         + SumWhereUser(Tail(ledger), user_id)

\* a balance that forgets the WHERE clause
calculate_user_balance_unfiltered(ledger, user_id) == SumAll(ledger)

calculate_user_balance(ledger, user_id) == SumWhereUser(ledger, user_id)

\* calculate_household_balance: SELECT user_id, coalesce(sum(amount), 0)
\* WHERE household_id = ... GROUP BY user_id, as a dict
calculate_household_balance(ledger, household_id) ==
    LET rows == SelectSeq(ledger, LAMBDA tx : tx.household_id = household_id)
    IN  [x \in {rows[i].user_id : i \in 1..Len(rows)} |-> SumWhereUser(rows, x)]

----------------------------------------------------------------------------
(* Task templates and recurring rules *)

\* POST /templates/tasks
CreateTaskTemplate(u, title, default_points) ==
    /\ Cardinality(DOMAIN templates) < MaxTemplates
    /\ templates' = Commit(templates, InsertRow(templates,
                       [household_id |-> HouseholdOf(u), title |-> title,
                        default_points |-> default_points]))
    /\ last' = Answer("ok")
    /\ EnsureDefaults(HouseholdOf(u))
    /\ UNCHANGED <<today, users, tasks, txs, rewardUses, rules, plans, days, selections, households, isolation, inflight>>

\* POST /templates/tasks/{template_id}/delete
DeleteTaskTemplate(u, template_id) ==
    /\ IF template_id \in DOMAIN templates
          /\ templates[template_id].household_id = HouseholdOf(u)
       THEN /\ templates' = Commit(templates, DeleteRow(templates, template_id))
            /\ last' = Answer("ok")
       ELSE /\ last' = Answer("Template not found")
            /\ UNCHANGED templates
    /\ UNCHANGED <<today, users, tasks, txs, rewardUses, rules, plans, days, selections, households, isolation, inflight, kitchen>>

\* POST /settings/recurring
AddRecurringRule(u, task_template_id, frequency, next_run_date, assignee_user_id) ==
    /\ Len(rules) < MaxRules
    /\ rules' = Commit(rules, Append(rules,
                   [household_id |-> HouseholdOf(u),
                    task_template_id |-> task_template_id,
                    assignee_user_id |-> assignee_user_id,
                    frequency |-> frequency,
                    next_run_date |-> Or(next_run_date, today),
                    active |-> TRUE]))
    /\ last' = Answer("ok")
    /\ UNCHANGED <<today, users, tasks, txs, rewardUses, templates, plans, days, selections, households, isolation, inflight, kitchen>>

\* POST /settings/recurring/{rule_id}/toggle
ToggleRecurringRule(u, rule_id, active) ==
    /\ IF rule_id \in 1..Len(rules) /\ rules[rule_id].household_id = HouseholdOf(u)
       THEN /\ rules' = Commit(rules, [rules EXCEPT ![rule_id].active = active])
            /\ last' = Answer("ok")
       ELSE /\ last' = Answer("Rule not found")
            /\ UNCHANGED rules
    /\ UNCHANGED <<today, users, tasks, txs, rewardUses, templates, plans, days, selections, households, isolation, inflight, kitchen>>

\* a runner that moves the rule one period on from where it was
NextRunDateByPeriod(frequency, next_run_date) ==
    IF frequency = "daily" THEN next_run_date + 1
    ELSE IF frequency = "weekly" THEN next_run_date + 7
    ELSE next_run_date + 30

\* a runner that leaves the rule where it was
NextRunDateStuck(frequency, next_run_date) == next_run_date

\* run_recurring_rules: today + timedelta(days=1 | 7 | 30)
NextRunDate(frequency, next_run_date) ==
    IF frequency = "daily" THEN today + 1
    ELSE IF frequency = "weekly" THEN today + 7
    ELSE today + 30

\* The rules the runner selects: of the household, active, next_run_date <= today
DueRules(rl, household_id) ==
    {i \in 1..Len(rl) :
        /\ rl[i].household_id = household_id
        /\ rl[i].active
        /\ rl[i].next_run_date <= today}

RECURSIVE RunRulesFrom(_, _, _, _, _, _, _)
\* run_recurring_rules, the loop over the selected rules (in id order): a rule
\* whose template is gone is skipped, any other creates a task and is advanced
RunRulesFrom(i, due, tk, rl, created, household_id, created_by) ==
    IF i > Len(rl)
    THEN [tasks |-> tk, rules |-> rl, created |-> created]
    ELSE IF i \notin due \/ rl[i].task_template_id \notin DOMAIN templates
    THEN RunRulesFrom(i + 1, due, tk, rl, created, household_id, created_by)
    ELSE LET template == templates[rl[i].task_template_id]
             task == NewTask(household_id, next_order_number(tk, household_id),
                             Or(template.default_points, 0), created_by,
                             rl[i].assignee_user_id, rl[i].task_template_id, None, "none",
                             3, "")
         IN  RunRulesFrom(i + 1, due, Append(tk, task),
                          [rl EXCEPT ![i].next_run_date =
                                        NextRunDate(rl[i].frequency, rl[i].next_run_date)],
                          Append(created, <<i, Len(tk) + 1>>),
                          household_id, created_by)

\* run_recurring_rules: the task and rule rows it leaves, and for every task it
\* created the pair <<rule id, task id>>
run_recurring_rules(tk, rl, household_id, created_by) ==
    RunRulesFrom(1, DueRules(rl, household_id), tk, rl, <<>>, household_id, created_by)

----------------------------------------------------------------------------
(* Meal plans *)

\* a lookup that finds no existing date, so that every date of the range is added
MissingDatesAll(dy, plan_id, plan) == plan.start_date .. plan.end_date

\* ensure_meal_plan_days: the dates of the plan's range that have no row yet
MissingDates(dy, plan_id, plan) ==
    {d \in plan.start_date .. plan.end_date :
        ~\E i \in 1..Len(dy) : dy[i].meal_plan_id = plan_id /\ dy[i].day_date = d}

NewDay(plan_id, day_date) ==
    [meal_plan_id |-> plan_id,
     day_date |-> day_date,
     lunch_menu_id |-> None,
     dinner_menu_id |-> None,
     lunch_set_template_id |-> None,
     dinner_set_template_id |-> None]

RECURSIVE AddDays(_, _, _, _, _)
\* the while loop of ensure_meal_plan_days, from day to the plan's end_date
AddDays(dy, plan_id, day, end_date, missing) ==
    IF day > end_date
    THEN dy
    ELSE AddDays(IF day \in missing THEN Append(dy, NewDay(plan_id, day)) ELSE dy,
                 plan_id, day + 1, end_date, missing)

\* ensure_meal_plan_days(session, plan): the MealPlanDay rows it leaves
ensure_meal_plan_days(dy, plan_id, plan) ==
    Commit(dy, AddDays(dy, plan_id, plan.start_date, plan.end_date,
                       MissingDates(dy, plan_id, plan)))

NewPlan(u, start_date, end_date) ==
    [household_id |-> HouseholdOf(u),
     start_date |-> start_date,
     end_date |-> end_date,
     created_by_user_id |-> u]

\* POST /meal-plans
CreateMealPlan(u, start_date, end_date) ==
    /\ Len(plans) < MaxPlans
    /\ IF end_date < start_date
       THEN /\ last' = Answer("End date must be after start date")
            /\ UNCHANGED <<plans, days>>
       ELSE /\ plans' = Commit(plans, Append(plans, NewPlan(u, start_date, end_date)))
            /\ days' = ensure_meal_plan_days(days, Len(plans) + 1,
                                             NewPlan(u, start_date, end_date))
            /\ last' = Answer("Meal plan created")
    /\ UNCHANGED <<today, users, tasks, txs, rewardUses, templates, rules, selections, households, isolation, inflight, kitchen>>

\* GET /meal-plans/{plan_id} and GET /meal-plans/{plan_id}/ingredients
OpenMealPlan(u, plan_id) ==
    /\ IF plan_id \in 1..Len(plans) /\ plans[plan_id].household_id = HouseholdOf(u)
       THEN /\ EnsureDefaults(HouseholdOf(u))
            /\ days' = ensure_meal_plan_days(days, plan_id, plans[plan_id])
            /\ last' = Answer("ok")
       ELSE /\ last' = Answer("Meal plan not found")
            /\ UNCHANGED <<days, kitchen>>
    /\ UNCHANGED <<today, users, tasks, txs, rewardUses, templates, rules, plans, selections, households, isolation, inflight>>

\* get_meal_set_templates: seed_default_meal_sets gave every household one meal set
\* when it was created, so household h holds the MealSetTemplate with id h
get_meal_set_templates(household_id) == {household_id}

\* get_meal_set_requirements of that set: Soup 1, Main 1, Side 2
get_meal_set_requirements(set_id) ==
    << [dish_type_id |-> DishTypeId(set_id, 2), required_count |-> 1],
       [dish_type_id |-> DishTypeId(set_id, 1), required_count |-> 1],
       [dish_type_id |-> DishTypeId(set_id, 3), required_count |-> 2] >>

\* day_lookup.get(parsed_day): the plan's row for that date (the last one loaded)
DayLookup(dy, plan_id, day_date) ==
    LET found == {i \in 1..Len(dy) : dy[i].meal_plan_id = plan_id /\ dy[i].day_date = day_date}
    IN  IF found = {} THEN None ELSE SetMax(found)

\* x if not x or x in valid else None
ValidOrNone(x, valid) == IF x = None \/ x = 0 \/ x \in valid THEN x ELSE None

\* the MealPlanSelection rows update_meal_plan writes for one slot of one form row:
\* for every requirement of the set, the first required_count values submitted for
\* its dish type, those that name a menu of the household with that dish type
SlotSelections(d, slot, set_val, picks, household_id) ==
    IF set_val = None \/ set_val = 0 \/ set_val \notin get_meal_set_templates(household_id)
    THEN {}
    ELSE LET reqs == get_meal_set_requirements(set_val)
             values(r) == SelectSeq(picks, LAMBDA v : v.dish_type_id = reqs[r].dish_type_id)
         IN  {[meal_plan_day_id |-> d, meal_slot |-> slot,
               dish_type_id |-> reqs[r].dish_type_id,
               menu_id |-> values(r)[position].menu_id,
               position |-> position] :
                 <<r, position>> \in
                   {<<r, position>> \in (1..Len(reqs)) \X (1..Len(picks)) :
                       /\ position <= Len(values(r))
                       /\ position <= reqs[r].required_count
                       /\ values(r)[position].menu_id
                             \in get_menus_for_household(menus, household_id)
                       /\ menus[values(r)[position].menu_id].dish_type_id
                             = reqs[r].dish_type_id}}

RECURSIVE UpdateRowsFrom(_, _, _, _, _, _)
\* update_meal_plan, the loop over the rows of the form
UpdateRowsFrom(idx, dy, sel, form, plan_id, household_id) ==
    IF idx > Len(form)
    THEN [days |-> dy, selections |-> sel]
    ELSE LET row == form[idx]
             d == DayLookup(dy, plan_id, row.day_date)
             valid_menu_ids == get_menus_for_household(menus, household_id)
             set_templates == get_meal_set_templates(household_id)
         IN  IF d = None
             THEN UpdateRowsFrom(idx + 1, dy, sel, form, plan_id, household_id)
             ELSE UpdateRowsFrom(idx + 1,
                     [dy EXCEPT ![d] =
                         [@ EXCEPT
                            !.lunch_menu_id = ValidOrNone(row.lunch_id, valid_menu_ids),
                            !.dinner_menu_id = ValidOrNone(row.dinner_id, valid_menu_ids),
                            !.lunch_set_template_id =
                                IF row.lunch_set_id \in set_templates
                                THEN row.lunch_set_id ELSE None,
                            !.dinner_set_template_id =
                                IF row.dinner_set_id \in set_templates
                                THEN row.dinner_set_id ELSE None]],
                     {x \in sel : x.meal_plan_day_id # d}
                        \cup SlotSelections(d, "lunch", row.lunch_set_id,
                                            row.lunch_picks, household_id)
                        \cup SlotSelections(d, "dinner", row.dinner_set_id,
                                            row.dinner_picks, household_id),
                     form, plan_id, household_id)

\* POST /meal-plans/{plan_id}: the rows and the answer it leaves.  form is the
\* zipped form: one row per day with the menu ids, the set ids and the values
\* submitted for the selections of each slot
update_meal_plan(u, plan_id, form) ==
    IF plan_id \notin 1..Len(plans) \/ plans[plan_id].household_id # HouseholdOf(u)
    THEN [days |-> days, selections |-> selections, resp |-> "Meal plan not found"]
    ELSE LET r == UpdateRowsFrom(1, ensure_meal_plan_days(days, plan_id, plans[plan_id]),
                                 selections, form, plan_id, HouseholdOf(u))
         IN  [days |-> Commit(days, r.days),
              selections |-> Commit(selections, r.selections),
              resp |-> "Meal plan updated"]

UpdateMealPlan(u, plan_id, form) ==
    /\ \E r \in {update_meal_plan(u, plan_id, form)} :
           /\ days' = r.days
           /\ selections' = r.selections
           /\ last' = Answer(r.resp)
    /\ UNCHANGED <<today, users, tasks, txs, rewardUses, templates, rules, plans, households, isolation, inflight, kitchen>>

\* the MealPlanDay rows of a plan
PlanDays(plan_id) == {d \in 1..Len(days) : days[d].meal_plan_id = plan_id}

\* aggregate_meal_plan_ingredients: the set menu_ids it collects
PlanMenuIds(plan_id) ==
    {days[d].lunch_menu_id : d \in {x \in PlanDays(plan_id) : Or(days[x].lunch_menu_id, None) # None}}
    \cup {days[d].dinner_menu_id : d \in {x \in PlanDays(plan_id) : Or(days[x].dinner_menu_id, None) # None}}
    \cup {sel.menu_id : sel \in {x \in selections : /\ x.meal_plan_day_id \in PlanDays(plan_id)
                                                     /\ Or(x.menu_id, None) # None}}

\* the rows of the join Ingredient - MenuIngredient - Menu with
\* Menu.id IN menu_ids AND Menu.household_id = plan.household_id
JoinedLines(plan_id) ==
    {l \in DOMAIN menuLines :
        /\ menuLines[l].ingredient_id \in DOMAIN ingredients
        /\ menuLines[l].menu_id \in DOMAIN menus
        /\ menuLines[l].menu_id \in PlanMenuIds(plan_id)
        /\ menus[menuLines[l].menu_id].household_id = plans[plan_id].household_id}

RECURSIVE SumQuantity(_)
\* func.sum(MenuIngredient.quantity) over a group of rows
SumQuantity(L) ==
    IF L = {}
    THEN 0
    ELSE LET l == CHOOSE x \in L : TRUE
         IN  menuLines[l].quantity + SumQuantity(L \ {l})

\* a grouping by the ingredient's name alone
SameName(a, b) ==
    ingredients[menuLines[a].ingredient_id].name = ingredients[menuLines[b].ingredient_id].name

\* GROUP BY Ingredient.name, Ingredient.unit: two joined rows fall in one group
SameGroup(a, b) ==
    /\ ingredients[menuLines[a].ingredient_id].name = ingredients[menuLines[b].ingredient_id].name
    /\ ingredients[menuLines[a].ingredient_id].unit = ingredients[menuLines[b].ingredient_id].unit

\* aggregate_meal_plan_ingredients(session, plan): the list it returns, as a set
aggregate_meal_plan_ingredients(plan_id) ==
    {[name |-> ingredients[menuLines[l].ingredient_id].name,
      unit |-> ingredients[menuLines[l].ingredient_id].unit,
      quantity |-> SumQuantity({x \in JoinedLines(plan_id) : SameGroup(l, x)})] :
        l \in JoinedLines(plan_id)}

\* a runner that visits the days after today as well
MealSlotsAnyDay(household_id) ==
    {<<d, slot>> \in (1..Len(days)) \X MealSlot :
        plans[days[d].meal_plan_id].household_id = household_id}

\* The (day, slot) pairs run_meal_plan_tasks visits: days of the household's plans
\* with day_date <= today, lunch before dinner
MealSlots(household_id) ==
    {<<d, slot>> \in (1..Len(days)) \X MealSlot :
        /\ plans[days[d].meal_plan_id].household_id = household_id
        /\ days[d].day_date <= today}

SetIdOf(d, slot) ==
    IF slot = "lunch" THEN days[d].lunch_set_template_id ELSE days[d].dinner_set_template_id

HasSelections(d, slot) ==
    \E sel \in selections : sel.meal_plan_day_id = d /\ sel.meal_slot = slot

\* a lookup that overlooks cancelled tasks
ExistingOpenMealTask(tk, household_id, d, slot) ==
    \E i \in 1..Len(tk) :
        /\ tk[i].household_id = household_id
        /\ tk[i].meal_plan_day_id = d
        /\ tk[i].meal_slot = slot
        /\ tk[i].status # "cancelled"

\* run_meal_plan_tasks: is there a task of the household for this day and slot
ExistingMealTask(tk, household_id, d, slot) ==
    \E i \in 1..Len(tk) :
        /\ tk[i].household_id = household_id
        /\ tk[i].meal_plan_day_id = d
        /\ tk[i].meal_slot = slot

RECURSIVE RunSlotsFrom(_, _, _, _, _)
\* run_meal_plan_tasks, the loops over days and slots: a slot with neither a set
\* id nor selections is skipped, one that has a task already is skipped
RunSlotsFrom(d, slot, tk, household_id, created_by) ==
    IF d > Len(days)
    THEN tk
    ELSE LET next_d == IF slot = "lunch" THEN d ELSE d + 1
             next_slot == IF slot = "lunch" THEN "dinner" ELSE "lunch"
             existing == ExistingMealTask(tk, household_id, d, slot)
         IN  IF \/ <<d, slot>> \notin MealSlots(household_id)
                \/ (Or(SetIdOf(d, slot), None) = None /\ ~HasSelections(d, slot))
                \/ existing
             THEN RunSlotsFrom(next_d, next_slot, tk, household_id, created_by)
             ELSE RunSlotsFrom(next_d, next_slot,
                     Append(tk, NewTask(household_id, next_order_number(tk, household_id),
                                        2, created_by, None, None, d, slot, 2, "meal")),
                     household_id, created_by)

\* run_meal_plan_tasks: the task rows it leaves
run_meal_plan_tasks(tk, household_id, created_by) ==
    RunSlotsFrom(1, "lunch", tk, household_id, created_by)

\* GET / and GET /tasks: both runners, for the acting user's household
Dashboard(u) ==
    /\ \E r \in {run_recurring_rules(tasks, rules, HouseholdOf(u), u)} :
          \E tk \in {run_meal_plan_tasks(r.tasks, HouseholdOf(u), u)} :
             /\ Len(tk) <= MaxTasks
             /\ tasks' = Commit(tasks, tk)
             /\ rules' = Commit(rules, r.rules)
    /\ last' = Answer("ok")
    /\ UNCHANGED <<today, users, txs, rewardUses, templates, plans, days, selections, households, isolation, inflight, kitchen>>

----------------------------------------------------------------------------
(* Households and accounts *)

\* hash_password and verify_password (src/app/auth.py)
hash_password(password) == <<"pbkdf2_sha256", password>>
verify_password(password, hashed) == hashed = hash_password(password)

NewUser(household_id, email, password) ==
    [household_id |-> household_id, email |-> email,
     hashed_password |-> hash_password(password)]

\* select(User).where(User.email == email, User.household_id == household_id).first()
UsersWith(us, email, household_id) ==
    {i \in 1..Len(us) : us[i].email = email /\ us[i].household_id = household_id}

\* a comparison that lets a request without a code through
JoinCodeRefusedIfGiven(stored_code, provided_code) ==
    Truthy(stored_code) /\ Truthy(provided_code) /\ provided_code # stored_code

\* register: if stored_code and provided_code != stored_code
JoinCodeRefused(stored_code, provided_code) ==
    Truthy(stored_code) /\ provided_code # stored_code

\* seed_household_templates, with one preset
SeedTemplates(tp, household_id) ==
    IF \E i \in DOMAIN tp : tp[i].household_id = household_id
    THEN tp
    ELSE InsertRow(tp, [household_id |-> household_id, title |-> <<"tidy">>,
                        default_points |-> 3])

\* POST /register: the rows and the answer it leaves.  token is what
\* secrets.token_hex(3) returns
register(email, password, create_household, household_name, new_join_code, existing_join_code, household_id, token) ==
    LET new_code == IF Truthy(new_join_code) THEN Strip(new_join_code) ELSE NoStr
        existing_code == IF Truthy(existing_join_code) THEN Strip(existing_join_code) ELSE NoStr
        refused(resp) == [households |-> households, users |-> users,
                          templates |-> templates, kitchen |-> Kitchen, resp |-> resp]
        joined(hs, tp, hid) ==
            IF UsersWith(users, email, hid) # {}
            THEN [households |-> hs, users |-> users, templates |-> tp,
                  kitchen |-> ensure_meal_seed_data(Kitchen, hid),
                  resp |-> "User already exists"]
            ELSE [households |-> hs,
                  users |-> Commit(users, Append(users, NewUser(hid, email, password))),
                  templates |-> tp,
                  kitchen |-> ensure_meal_seed_data(Kitchen, hid),
                  resp |-> "Registered and logged in"]
    IN  IF create_household
        THEN IF ~Truthy(household_name)
             THEN refused("Household name required")
             ELSE joined(Commit(households,
                            Append(households, [join_code |-> Lower(StrOr(new_code, token))])),
                         SeedTemplates(templates, Len(households) + 1),
                         Len(households) + 1)
        ELSE IF household_id = None \/ household_id = 0
             THEN refused("Select a household")
             ELSE IF household_id \notin 1..Len(households)
             THEN refused("Household not found")
             ELSE LET code == households[household_id].join_code
                      stored_code == IF Truthy(code) THEN Strip(Lower(code)) ELSE NoStr
                      provided_code == IF Truthy(existing_code)
                                       THEN Strip(Lower(existing_code)) ELSE NoStr
                  IN  IF JoinCodeRefused(stored_code, provided_code)
                      THEN refused("Invalid join code")
                      ELSE joined(households, templates, household_id)

Register(email, password, create_household, household_name, new_join_code, existing_join_code, household_id, token) ==
    /\ Len(users) < MaxUsers
    /\ create_household => Len(households) < MaxHouseholds
    /\ \E r \in {register(email, password, create_household, household_name,
                           new_join_code, existing_join_code, household_id, token)} :
           /\ households' = r.households
           /\ users' = r.users
           /\ templates' = r.templates
           /\ menus' = r.kitchen.menus
           /\ menuLines' = r.kitchen.menuLines
           /\ ingredients' = r.kitchen.ingredients
           /\ dishTypes' = r.kitchen.dishTypes
           /\ last' = Answer(r.resp)
    /\ UNCHANGED <<today, tasks, txs, rewardUses, rules, plans, days, selections,
                   isolation, inflight>>

\* POST /login: the answer it leaves (both failures redirect to /login)
login(email, password, household_id) ==
    IF household_id \notin 1..Len(households)
    THEN "Household not found"
    ELSE IF \/ UsersWith(users, email, household_id) = {}
            \/ ~verify_password(password,
                   users[SetMin(UsersWith(users, email, household_id))].hashed_password)
    THEN "Invalid credentials"
    ELSE "Logged in"

Login(email, password, household_id) ==
    /\ last' = Answer(login(email, password, household_id))
    /\ UNCHANGED <<today, users, tasks, txs, rewardUses, templates, rules, plans, days,
                   selections, households, isolation, inflight, kitchen>>

\* POST /settings/language, the join code part: the Household rows it leaves
update_language(u, join_code, regenerate_join_code, token) ==
    LET hid == HouseholdOf(u)
        cleaned_code == IF Truthy(join_code) THEN Lower(Strip(join_code)) ELSE NoStr
    IN  IF hid \notin 1..Len(households)
        THEN households
        ELSE Commit(households,
               [households EXCEPT ![hid].join_code =
                   IF regenerate_join_code THEN token
                   ELSE IF join_code # NoStr THEN StrOr(cleaned_code, households[hid].join_code)
                   ELSE households[hid].join_code])

UpdateLanguage(u, join_code, regenerate_join_code, token) ==
    /\ households' = update_language(u, join_code, regenerate_join_code, token)
    /\ last' = Answer("Settings updated")
    /\ UNCHANGED <<today, users, tasks, txs, rewardUses, templates, rules, plans, days,
                   selections, isolation, inflight, kitchen>>

----------------------------------------------------------------------------
(* The calendar *)

\* date.today() moves on between requests
AdvanceDay ==
    /\ today < MaxDay
    /\ today' = today + 1
    /\ last' = Answer("ok")
    /\ UNCHANGED <<users, tasks, txs, rewardUses, templates, rules, plans, days, selections, households, isolation, inflight, kitchen>>

----------------------------------------------------------------------------
(* Initial state: two members of household 1, one member of household 2 *)

InitTables ==
    /\ today = 1
    /\ households = <<[join_code |-> <<"a">>], [join_code |-> <<"b">>]>>
    /\ users = <<NewUser(1, "x", "p"), NewUser(1, "y", "p"), NewUser(2, "x", "p")>>
    /\ tasks = <<>>
    /\ txs = <<>>
    /\ rewardUses = <<>>
    /\ templates = <<>>
    /\ rules = <<>>
    /\ plans = <<>>
    /\ days = <<>>
    /\ selections = {}
    /\ inflight = {}
    /\ menus = SeededKitchen.menus
    /\ menuLines = SeededKitchen.menuLines
    /\ ingredients = SeededKitchen.ingredients
    /\ dishTypes = SeededKitchen.dishTypes
    /\ last = Answer("ok")

\* The default database is SQLite
Init ==
    /\ InitTables
    /\ isolation = "locking"

\* DATABASE_URL may select another database
InitRace ==
    /\ InitTables
    /\ isolation \in Isolations

TaskIdInputs == 1..MaxTasks
AssigneeInputs == {None, 2}
RewardUseIdInputs == 1..MaxRewardUses

NextTask ==
    \/ \E u \in UserIds, p \in ProposedValues, a \in AssigneeInputs, ok \in BOOLEAN :
          CreateTask(u, p, a, ok)
    \/ \E u \in UserIds, t \in TaskIdInputs, p \in ProposedValues, a \in AssigneeInputs,
          ok \in BOOLEAN :
          EditTask(u, t, p, a, ok)
    \/ \E u \in UserIds, t \in TaskIdInputs, action \in TaskActions, p \in SuppliedValues :
          UpdateTaskStatus(u, t, action, p)

NextRewardUse ==
    \/ \E u \in UserIds, c \in CostValues : RequestRewardUse(u, c)
    \/ \E u \in UserIds, r \in RewardUseIdInputs, action \in RewardActions :
          HandleRewardUse(u, r, action)

NextReward ==
    \/ NextRewardUse
    \/ AdvanceDay

\* Tasks and reward uses together, at most MaxLedgerRows of them
NextLedger ==
    /\ NextTask \/ NextRewardUse
    /\ Len(tasks') + Len(rewardUses') <= MaxLedgerRows

TemplateIdInputs == 1..MaxTemplates
TemplatePointValues == {3}
RuleIdInputs == 1..MaxRules
RunDateInputs == {None, 1}
RuleAssigneeInputs == {None}
PlanIdInputs == 1..MaxPlans
PlanDateInputs == 1..MaxPlanDate

NextRecurring ==
    \/ \E u \in UserIds, p \in TemplatePointValues : CreateTaskTemplate(u, <<"dishes">>, p)
    \/ \E u \in UserIds, t \in TemplateIdInputs : DeleteTaskTemplate(u, t)
    \/ \E u \in UserIds, t \in TemplateIdInputs, f \in RecurringFrequency,
          d \in RunDateInputs, a \in RuleAssigneeInputs :
          AddRecurringRule(u, t, f, d, a)
    \/ \E u \in UserIds, r \in RuleIdInputs, active \in BOOLEAN :
          ToggleRecurringRule(u, r, active)
    \/ \E u \in UserIds : Dashboard(u)
    \/ AdvanceDay

NextMeal ==
    \/ \E u \in UserIds, s \in PlanDateInputs, e \in PlanDateInputs : CreateMealPlan(u, s, e)
    \/ \E u \in UserIds, p \in PlanIdInputs : OpenMealPlan(u, p)

RaceActions == {"claim", "complete", "approve"}
RaceSupplied == {None}

\* Task actions as concurrent sessions, on at most MaxRaceTasks tasks
NextRace ==
    \/ /\ Len(tasks) < MaxRaceTasks
       /\ inflight = {}
       /\ \E u \in UserIds, p \in ProposedValues : CreateTask(u, p, None, TRUE)
    \/ \E u \in UserIds, t \in 1..MaxRaceTasks, action \in RaceActions, p \in RaceSupplied :
          BeginTaskAction(u, t, action, p)
    \/ \E req \in inflight : LookupTaskTx(req)
    \/ \E req \in inflight : FinishTaskAction(req)

Emails == {"x", "y"}
RegisterPasswords == {"p"}
LoginPasswords == {"p", "q"}
HouseholdNames == {NoStr, <<"h">>}
JoinCodeInputs == {NoStr, <<>>, <<"a">>, <<" ", "A">>, <<"b">>}
TokenValues == {<<"c">>, <<"a">>}
HouseholdIdInputs == {None, 1, 2, 3}

NextAuth ==
    \/ \E e \in Emails, pw \in RegisterPasswords, create \in BOOLEAN, name \in HouseholdNames,
          nc \in JoinCodeInputs, ec \in JoinCodeInputs, hid \in HouseholdIdInputs,
          token \in TokenValues :
          Register(e, pw, create, name, nc, ec, hid, token)
    \/ \E e \in Emails, pw \in LoginPasswords, hid \in HouseholdIdInputs \ {None} :
          Login(e, pw, hid)
    \/ \E u \in UserIds, jc \in JoinCodeInputs, regen \in BOOLEAN, token \in TokenValues :
          UpdateLanguage(u, jc, regen, token)

\* The rows a meal plan form is filled with
FormRow(day_date, lunch_id, dinner_id, lunch_set_id, dinner_set_id, lunch_picks, dinner_picks) ==
    [day_date |-> day_date, lunch_id |-> lunch_id, dinner_id |-> dinner_id,
     lunch_set_id |-> lunch_set_id, dinner_set_id |-> dinner_set_id,
     lunch_picks |-> lunch_picks, dinner_picks |-> dinner_picks]

Pick(dish_type_id, menu_id) == [dish_type_id |-> dish_type_id, menu_id |-> menu_id]

\* set ids and selections for lunch or a legacy menu id for lunch, nothing for dinner
SetRows ==
    {FormRow(d, None, None, x[1], None, x[2], <<>>) :
        d \in 1..2, x \in {<<None, <<>> >>, <<1, <<>> >>, <<1, <<Pick(2, 1)>> >>}}
    \cup {FormRow(1, 2, None, None, None, <<>>, <<>>)}

\* one member of each household
PlanUsers == {1, 3}
PlanTaskActions == {"cancel"}

NextPlanTasks ==
    \/ \E u \in PlanUsers, e \in 1..2 : CreateMealPlan(u, 1, e)
    \/ \E u \in PlanUsers, p \in PlanIdInputs, row \in SetRows : UpdateMealPlan(u, p, <<row>>)
    \/ \E u \in PlanUsers : Dashboard(u)
    \/ \E u \in PlanUsers, t \in TaskIdInputs, action \in PlanTaskActions :
          UpdateTaskStatus(u, t, action, None)
    \/ AdvanceDay

SpecPlanTasks == Init /\ [][NextPlanTasks]_vars
\* a line of the menu form
FormLine(name, quantity, unit) == [name |-> name, quantity |-> quantity, unit |-> unit]

\* salt by the gram, and salt by the gram and by the millilitre
ShoppingLines ==
    {<<FormLine(<<"salt">>, "1", <<"g">>)>>,
     <<FormLine(<<" ", "salt">>, "1", <<"g">>), FormLine(<<"salt">>, "2.0", <<"ml">>)>>}
LunchMenuIds == {None, 2, 5}
DinnerMenuIds == {None, 5}

\* legacy menu ids for lunch and dinner, or a set with one selection
MenuRows ==
    {FormRow(d, l, dn, None, None, <<>>, <<>>) : d \in 1..2, l \in LunchMenuIds, dn \in DinnerMenuIds}
    \cup {FormRow(d, None, None, 1, None, <<Pick(2, 1)>>, <<>>) : d \in 1..2}

\* the member of household 1 who keeps the menu book
Cook == 1

NextShopping ==
    \/ \E rows \in ShoppingLines : CreateMenu(Cook, <<"stew">>, None, rows)
    \/ \E u \in PlanUsers : CreateMealPlan(u, 1, 2)
    \/ \E u \in PlanUsers, p \in PlanIdInputs, row \in MenuRows : UpdateMealPlan(u, p, <<row>>)

SpecShopping == Init /\ [][NextShopping]_vars
\* what the pantry forms are filled with: a line without a unit, a line by the gram
PantryNames == {<<"rice">>, <<" ">>}
PantryUnits == {NoStr, <<"g">>, <<" ">>}
PantryLines == {<<FormLine(<<"salt">>, "1", <<>>)>>, <<FormLine(<<"rice">>, "2", <<"g">>)>>}
IngredientIdInputs == 1..MaxIngredients
MenuIdInputs == 1..MaxMenus

\* uploaded files: the export of a freshly registered household, and one menu with
\* a line that has no unit
PayloadInputs ==
    {export_household_data(SeededKitchen, 1),
     [dish_types |-> 1..Len(DishTypeNames),
      ingredients |-> << [name |-> <<"salt">>, unit |-> NoStr] >>,
      menus |-> << [name |-> <<"stew">>, dish_type |-> None,
                    ingredients |-> << [name |-> <<"salt">>, quantity |-> 1,
                                        unit |-> NoStr] >>] >>]}

NextPantry ==
    \/ \E name \in PantryNames, unit \in PantryUnits : CreateIngredient(Cook, name, unit)
    \/ \E u \in PlanUsers, i \in IngredientIdInputs : DeleteIngredient(u, i)
    \/ \E rows \in PantryLines : CreateMenu(Cook, <<"stew">>, None, rows)
    \/ \E m \in MenuIdInputs : DeleteMenu(Cook, m)
    \/ \E payload \in PayloadInputs : ImportData(Cook, payload)

SpecPantry == Init /\ [][NextPantry]_vars

\* what the menu form is filled with: no line; a blank line and a line whose
\* quantity is no number; the same ingredient twice, by a unit that is no option
MenuNames == {<<"stew">>, <<" ">>}
MenuDishTypes == {None, 2, 5}
MenuLineInputs ==
    {<<>>,
     <<FormLine(<<" ">>, "1", <<"g">>), FormLine(<<" ", "salt">>, "x", <<" ">>)>>,
     <<FormLine(<<"rice">>, "2", <<"cup">>), FormLine(<<"rice">>, "3.0", <<"cup">>)>>}

\* a seeded menu and the first menu the cook adds
EditedMenuIds == {2, 5}

NextMenuBook ==
    \/ \E rows \in MenuLineInputs : CreateMenu(Cook, <<"stew">>, None, rows)
    \/ \E u \in PlanUsers, m \in EditedMenuIds, name \in MenuNames, dt \in MenuDishTypes,
          rows \in MenuLineInputs :
          UpdateMenu(u, m, name, dt, rows)

SpecMenuBook == Init /\ [][NextMenuBook]_vars

\* a dish type a menu refers to, the last dish type of the table, and a later one
DishTypeIdInputs == {2, 8, 9}

NextExport ==
    \/ \E u \in PlanUsers, d \in DishTypeIdInputs : DeleteDishType(u, d)
    \/ \E dt \in {None, 4} : CreateMenu(Cook, <<"stew">>, dt, <<>>)
    \/ \E u \in PlanUsers : ExportData(u)
    \/ CreateTaskTemplate(Cook, <<"dishes">>, 3)
    \/ \E t \in TemplateIdInputs : AddRecurringRule(Cook, t, "daily", None, None)
    \/ \E t \in TemplateIdInputs : DeleteTaskTemplate(Cook, t)

SpecExport == Init /\ [][NextExport]_vars

\* the three ways a task comes to be: the form, a recurring rule, a planned meal
OrderRows == {FormRow(1, None, None, 1, None, <<>>, <<>>)}

NextOrder ==
    \/ \E u \in PlanUsers : CreateTask(u, 2, None, TRUE)
    \/ CreateTaskTemplate(Cook, <<"dishes">>, 3)
    \/ \E u \in PlanUsers, t \in TemplateIdInputs : AddRecurringRule(u, t, "daily", None, None)
    \/ \E u \in PlanUsers : CreateMealPlan(u, 1, 1)
    \/ \E u \in PlanUsers, p \in PlanIdInputs, row \in OrderRows : UpdateMealPlan(u, p, <<row>>)
    \/ \E u \in PlanUsers : Dashboard(u)
    \/ AdvanceDay

SpecOrder == Init /\ [][NextOrder]_vars

\* entries of an uploaded file
TemplateEntry(title, default_points) == [title |-> title, default_points |-> default_points]
RuleEntry(template_title, frequency, next_run_date) ==
    [template_title |-> template_title, frequency |-> frequency, next_run_date |-> next_run_date]

\* uploaded files with templates and rules: one that brings the template of its
\* first rule and names two more, one that brings a template twice and a rule of
\* an unknown frequency; and the two files of the menu book
ImportPayloads ==
    {[dish_types |-> {}, ingredients |-> <<>>, menus |-> <<>>,
      task_templates |-> <<TemplateEntry(<<" ", "tidy">>, 3)>>,
      recurring_rules |-> <<RuleEntry(<<"tidy">>, "daily", None),
                            RuleEntry(<<"dishes">>, "weekly", 1),
                            RuleEntry(<<"ghost">>, "weekly", 1)>>],
     [dish_types |-> {}, ingredients |-> <<>>, menus |-> <<>>,
      task_templates |-> <<TemplateEntry(<<"dishes">>, 2), TemplateEntry(<<"dishes">>, 4)>>,
      recurring_rules |-> <<RuleEntry(<<"dishes">>, "hourly", 2),
                            RuleEntry(<<"dishes">>, "weekly", None)>>]}
    \cup PayloadInputs

NextImport ==
    \/ \E u \in PlanUsers : CreateTaskTemplate(u, <<"dishes">>, 3)
    \/ \E u \in PlanUsers, t \in 1..MaxTemplateId : DeleteTaskTemplate(u, t)
    \/ \E u \in PlanUsers, payload \in ImportPayloads : ImportData(u, payload)
    \/ \E rows \in PantryLines : CreateMenu(Cook, <<"stew">>, None, rows)

SpecImport == Init /\ [][NextImport]_vars
SpecAuth == Init /\ [][NextAuth]_vars
SpecRace == InitRace /\ [][NextRace]_vars
SpecRecurring == Init /\ [][NextRecurring]_vars
SpecMeal == Init /\ [][NextMeal]_vars
SpecTask == Init /\ [][NextTask]_vars
SpecReward == Init /\ [][NextReward]_vars
SpecLedger == Init /\ [][NextLedger]_vars

----------------------------------------------------------------------------
(* Task status machine and payout: properties *)

TaskIds == 1..Len(tasks)

\* The transactions that reference a task, in a given ledger
TxsOfTask(ledger, t) == {i \in 1..Len(ledger) : ledger[i].related_task_id = t}

\* The transition table of the task status machine: <<action, from, to>>
StatusSteps ==
    {<<"claim", "open", "assigned">>,
     <<"start", "open", "in_progress">>,
     <<"start", "assigned", "in_progress">>,
     <<"complete", "assigned", "completed">>,
     <<"complete", "in_progress", "completed">>,
     <<"approve", "completed", "approved">>,
     <<"cancel", "open", "cancelled">>,
     <<"cancel", "assigned", "cancelled">>,
     <<"cancel", "in_progress", "cancelled">>,
     <<"cancel", "completed", "cancelled">>}

InTable(action, status) == \E step \in StatusSteps : step[1] = action /\ step[2] = status

\* u is a member of the household of task t
Member(u, t) == get_task(HouseholdOf(u), t) # None

\* C1: at most one PointTransaction references any task, and an approve by a
\* household member on a task that is completed, or that an earlier approve has
\* already approved, leaves exactly one
C1_PaidAtMostOnce ==
    \A t \in TaskIds :
        /\ Cardinality(TxsOfTask(txs, t)) <= 1
        /\ \A u \in UserIds, p \in SuppliedValues :
              (Member(u, t) /\ tasks[t].status \in {"completed", "approved"})
              => Cardinality(TxsOfTask(update_task_status(u, t, "approve", p).txs, t)) = 1

\* A second approve was refused on a task that was paid once
C1_Witness ==
    \E t \in TaskIds :
        /\ tasks[t].status = "approved"
        /\ Cardinality(TxsOfTask(txs, t)) = 1
        /\ last.resp = "Invalid action"

\* C2: an action by a household member whose (action, status) pair is outside the
\* transition table is answered "Invalid action" and changes neither the task
\* rows nor the ledger, whatever actual_points it supplies
C2_InvalidActionNoChange ==
    \A u \in UserIds, t \in TaskIds, a \in TaskActions, p \in SuppliedValues :
        (Member(u, t) /\ ~InTable(a, tasks[t].status))
        => LET r == update_task_status(u, t, a, p)
           IN  r.resp = "Invalid action" /\ r.tasks = tasks /\ r.txs = txs

\* An action was refused while one task is cancelled and another is assigned
C2_Witness ==
    /\ last.resp = "Invalid action"
    /\ \E t \in TaskIds : tasks[t].status = "cancelled"
    /\ \E t \in TaskIds : tasks[t].status = "assigned"

\* C3: in every step a task's status changes only by a task action on it and along
\* a step of the table; no step leaves approved or cancelled
C3_StatusSteps ==
    [][\A t \in TaskIds :
          tasks'[t].status # tasks[t].status
          => \E a \in TaskActions :
                /\ <<a, tasks[t].status, tasks'[t].status>> \in StatusSteps
                /\ \E u \in UserIds, p \in SuppliedValues : UpdateTaskStatus(u, t, a, p)]_vars

\* Both terminal states are reached
C3_Witness ==
    \E t1, t2 \in TaskIds :
        /\ tasks[t1].status = "approved"
        /\ tasks[t2].status = "cancelled"

\* C4: approve on a completed task sets status approved, sets actual_points to the
\* supplied value, else the existing one, else proposed_points, and adds one earn
\* transaction of that amount for the assignee (the creator without one)
C4_ApproveEffect ==
    \A u \in UserIds, t \in TaskIds, p \in SuppliedValues :
        (Member(u, t) /\ tasks[t].status = "completed")
        => LET r == update_task_status(u, t, "approve", p)
               tx == r.txs[Len(r.txs)]
           IN  /\ r.tasks[t].status = "approved"
               /\ r.tasks[t].actual_points =
                      (IF p # None THEN p
                       ELSE IF tasks[t].actual_points # None THEN tasks[t].actual_points
                       ELSE tasks[t].proposed_points)
               /\ Len(r.txs) = Len(txs) + 1
               /\ tx.transaction_type = "earn"
               /\ tx.related_task_id = t
               /\ tx.amount = r.tasks[t].actual_points
               /\ tx.user_id = (IF tasks[t].assignee_user_id # None
                                THEN tasks[t].assignee_user_id
                                ELSE tasks[t].created_by_user_id)

----------------------------------------------------------------------------
(* Reward redemption: properties *)

RewardUseIds == 1..Len(rewardUses)

\* The transactions that reference a reward use, in a given ledger
TxsOfRewardUse(ledger, r) == {i \in 1..Len(ledger) : ledger[i].related_reward_use_id = r}

RewardMember(u, r) == get_reward_use(HouseholdOf(u), r) # None

\* C5 as stated: at most one PointTransaction references a reward use, and an
\* approve on one that is pending or already approved leaves exactly one, with a
\* negative amount
C5_SpentAtMostOnceNegative ==
    \A r \in RewardUseIds :
        /\ Cardinality(TxsOfRewardUse(txs, r)) <= 1
        /\ \A u \in UserIds :
              (RewardMember(u, r) /\ rewardUses[r].status \in {"pending", "approved"})
              => LET after == handle_reward_use(u, r, "approve").txs
                 IN  /\ Cardinality(TxsOfRewardUse(after, r)) = 1
                     /\ \A i \in TxsOfRewardUse(after, r) : after[i].amount < 0

\* C5 as amended: ... leaves exactly one, whose amount is never positive and is
\* negative unless cost_points is 0
C5_SpentAtMostOnce ==
    \A r \in RewardUseIds :
        /\ Cardinality(TxsOfRewardUse(txs, r)) <= 1
        /\ \A u \in UserIds :
              (RewardMember(u, r) /\ rewardUses[r].status \in {"pending", "approved"})
              => LET after == handle_reward_use(u, r, "approve").txs
                 IN  /\ Cardinality(TxsOfRewardUse(after, r)) = 1
                     /\ \A i \in TxsOfRewardUse(after, r) :
                           /\ after[i].amount <= 0
                           /\ rewardUses[r].cost_points # 0 => after[i].amount < 0

\* A second approve was refused on a reward use that was deducted once
C5_Witness ==
    \E r \in RewardUseIds :
        /\ rewardUses[r].status = "approved"
        /\ Cardinality(TxsOfRewardUse(txs, r)) = 1
        /\ \A i \in TxsOfRewardUse(txs, r) : txs[i].amount < 0
        /\ last.resp = "Invalid action"

\* C6: an approve or reject on a reward use that is no longer pending is answered
\* "Invalid action" and changes neither the reward uses nor the ledger; in every
\* step a status changes only from pending, to approved by approve or to rejected
\* by reject
C6_RewardTerminal ==
    /\ [](\A u \in UserIds, r \in RewardUseIds, a \in {"approve", "reject"} :
            (RewardMember(u, r) /\ rewardUses[r].status # "pending")
            => LET res == handle_reward_use(u, r, a)
               IN  /\ res.resp = "Invalid action"
                   /\ res.rewardUses = rewardUses
                   /\ res.txs = txs)
    /\ [][\A r \in RewardUseIds :
            rewardUses'[r] # rewardUses[r]
            => /\ rewardUses[r].status = "pending"
               /\ \E a \in {"approve", "reject"} :
                     /\ rewardUses'[r].status = (IF a = "approve" THEN "approved" ELSE "rejected")
                     /\ \E u \in UserIds : HandleRewardUse(u, r, a)]_vars

\* An action was refused on a day after the day a reward use was approved
C6_Witness ==
    /\ last.resp = "Invalid action"
    /\ \E r \in RewardUseIds :
          rewardUses[r].status = "approved" /\ rewardUses[r].approved_at < today
    /\ \E r \in RewardUseIds : rewardUses[r].status = "rejected"

\* C7: approving a pending reward use adds one spend transaction for the
\* requesting user with amount -abs(cost_points), never positive; a reject adds
\* none, and no transaction references a rejected reward use
C7_SpendAmount ==
    \A r \in RewardUseIds :
        /\ rewardUses[r].status = "rejected" => TxsOfRewardUse(txs, r) = {}
        /\ \A u \in UserIds :
              RewardMember(u, r)
              => /\ handle_reward_use(u, r, "reject").txs = txs
                 /\ rewardUses[r].status = "pending"
                    => LET after == handle_reward_use(u, r, "approve").txs
                           tx == after[Len(after)]
                           cost == rewardUses[r].cost_points
                       IN  /\ Len(after) = Len(txs) + 1
                           /\ tx.transaction_type = "spend"
                           /\ tx.related_reward_use_id = r
                           /\ tx.user_id = rewardUses[r].user_id
                           /\ tx.amount = (IF cost >= 0 THEN 0 - cost ELSE cost)
                           /\ tx.amount <= 0

\* A reward use of negative cost was approved and another was rejected
C7_Witness ==
    /\ \E r \in RewardUseIds :
          /\ rewardUses[r].cost_points < 0
          /\ rewardUses[r].status = "approved"
          /\ \E i \in TxsOfRewardUse(txs, r) : txs[i].amount = rewardUses[r].cost_points
    /\ \E r \in RewardUseIds : rewardUses[r].status = "rejected"

----------------------------------------------------------------------------
(* Balances: properties *)

RECURSIVE SumOver(_, _)
\* the sum of the amounts of the rows of a ledger at a set of positions
SumOver(ledger, S) ==
    IF S = {}
    THEN 0
    ELSE LET i == CHOOSE x \in S : TRUE
         IN  ledger[i].amount + SumOver(ledger, S \ {i})

RowsOfUser(ledger, x) == {i \in 1..Len(ledger) : ledger[i].user_id = x}

\* Every user id that owns a row, and every user
LedgerUsers(ledger) == UserIds \cup {ledger[i].user_id : i \in 1..Len(ledger)}

\* Appending one row of amount A for user x moves x's balance by A and no other
BalanceMovesByRow(before, after) ==
    Len(after) = Len(before) + 1
    => \A x \in LedgerUsers(after) :
          calculate_user_balance(after, x)
            = calculate_user_balance(before, x)
              + (IF after[Len(after)].user_id = x THEN after[Len(after)].amount ELSE 0)

\* C8: a user's balance is the signed sum of the amounts of the rows with that
\* user_id, and an approval (of a task or of a reward use) that adds a row of
\* amount A for user x changes x's balance by A and nobody else's
C8_BalanceIsSum ==
    /\ \A x \in LedgerUsers(txs) :
          calculate_user_balance(txs, x) = SumOver(txs, RowsOfUser(txs, x))
    /\ \A u \in UserIds, t \in TaskIds, p \in SuppliedValues :
          BalanceMovesByRow(txs, update_task_status(u, t, "approve", p).txs)
    /\ \A u \in UserIds, r \in RewardUseIds :
          BalanceMovesByRow(txs, handle_reward_use(u, r, "approve").txs)

\* One user earned and spent, and an approval is still to come
C8_Witness ==
    /\ \E i, j \in 1..Len(txs) :
          /\ txs[i].user_id = txs[j].user_id
          /\ txs[i].amount > 0
          /\ txs[j].amount < 0
          /\ calculate_user_balance(txs, txs[i].user_id) = txs[i].amount + txs[j].amount
    /\ last.resp = "ok"

----------------------------------------------------------------------------
(* Recurring rules: properties *)

RuleIds == 1..Len(rules)

\* The days a frequency moves a rule forward
Period(frequency) ==
    CASE frequency = "daily" -> 1
      [] frequency = "weekly" -> 7
      [] frequency = "monthly" -> 30

\* The tasks an invocation reports for a rule
CreatedFor(created, i) == {k \in 1..Len(created) : created[k][1] = i}

\* C9: for an active rule with an existing template and next_run_date = today, one
\* invocation of run_recurring_rules creates exactly one task from it and moves
\* next_run_date forward by 1, 7 or 30 days; a second invocation on the same day
\* creates no task from it and leaves next_run_date where the first put it
C9_RunOncePerDay ==
    \A u \in UserIds :
        LET h == HouseholdOf(u)
            first == run_recurring_rules(tasks, rules, h, u)
            second == run_recurring_rules(first.tasks, first.rules, h, u)
        IN  /\ Len(first.tasks) = Len(tasks) + Len(first.created)
            /\ Len(second.tasks) = Len(first.tasks) + Len(second.created)
            /\ \A i \in RuleIds :
                  (/\ rules[i].household_id = h
                   /\ rules[i].active
                   /\ rules[i].task_template_id \in DOMAIN templates
                   /\ rules[i].next_run_date = today)
                  => /\ Cardinality(CreatedFor(first.created, i)) = 1
                     /\ \A k \in CreatedFor(first.created, i) :
                           LET t == first.created[k][2]
                           IN  /\ t \in (1..Len(first.tasks)) \ (1..Len(tasks))
                               /\ first.tasks[t].household_id = h
                               /\ first.tasks[t].task_template_id = rules[i].task_template_id
                               /\ first.tasks[t].status = "open"
                     /\ first.rules[i].next_run_date
                          = rules[i].next_run_date + Period(rules[i].frequency)
                     /\ CreatedFor(second.created, i) = {}
                     /\ second.rules[i].next_run_date = first.rules[i].next_run_date

\* A weekly rule that was due today has fired, next to a rule that is due now
C9_Witness ==
    /\ \E i \in RuleIds :
          /\ rules[i].frequency = "weekly"
          /\ rules[i].active
          /\ rules[i].next_run_date = today + 7
          /\ \E t \in 1..Len(tasks) :
                /\ tasks[t].task_template_id = rules[i].task_template_id
                /\ tasks[t].household_id = rules[i].household_id
    /\ \E j \in RuleIds :
          /\ rules[j].active
          /\ rules[j].next_run_date = today
          /\ rules[j].task_template_id \in DOMAIN templates

----------------------------------------------------------------------------
(* Meal-plan days: properties *)

PlanIds == 1..Len(plans)

DaysOn(dy, p, d) == {i \in 1..Len(dy) : dy[i].meal_plan_id = p /\ dy[i].day_date = d}

\* C10: every plan has exactly one MealPlanDay for each date of start_date ..
\* end_date, and a further ensure_meal_plan_days call inserts nothing
C10_OneDayPerDate ==
    \A p \in PlanIds :
        /\ \A d \in plans[p].start_date .. plans[p].end_date :
              Cardinality(DaysOn(days, p, d)) = 1
        /\ ensure_meal_plan_days(days, p, plans[p]) = days

\* A plan of several days was opened after it was created
C10_Witness ==
    /\ last.resp = "ok"
    /\ \E p \in PlanIds :
          /\ plans[p].start_date < plans[p].end_date
          /\ \A d \in plans[p].start_date .. plans[p].end_date :
                Cardinality(DaysOn(days, p, d)) = 1

----------------------------------------------------------------------------
(* Household isolation: properties *)

\* C16: a task action on a task of another household, and a reward-use action on
\* a reward use of another household, is answered 404 and changes no task row, no
\* reward-use row and no ledger row
C16_CrossHouseholdNotFound ==
    \A u \in UserIds :
        /\ \A t \in TaskIds, a \in TaskActions, p \in SuppliedValues :
              tasks[t].household_id # HouseholdOf(u)
              => LET r == update_task_status(u, t, a, p)
                 IN  r.resp = "404" /\ r.tasks = tasks /\ r.txs = txs
        /\ \A ru \in RewardUseIds, a \in RewardActions :
              rewardUses[ru].household_id # HouseholdOf(u)
              => LET r == handle_reward_use(u, ru, a)
                 IN  r.resp = "404" /\ r.rewardUses = rewardUses /\ r.txs = txs

\* A request was answered 404 while a task of one household and a reward use of
\* another exist
C16_Witness ==
    /\ last.resp = "404"
    /\ \E t \in TaskIds, ru \in RewardUseIds :
          /\ tasks[t].household_id # rewardUses[ru].household_id
          /\ tasks[t].status = "open"
          /\ rewardUses[ru].status = "pending"

----------------------------------------------------------------------------
(* The complete action: properties *)

\* C19 as stated: complete on an assigned or in_progress task sets status
\* completed, keeps the assignee or else sets the actor, and leaves actual_points
\* equal to the supplied value, or else to proposed_points
C19_CompleteSuppliedOrProposed ==
    \A u \in UserIds, t \in TaskIds, p \in SuppliedValues :
        (Member(u, t) /\ tasks[t].status \in {"assigned", "in_progress"})
        => LET r == update_task_status(u, t, "complete", p)
           IN  /\ r.tasks[t].status = "completed"
               /\ r.tasks[t].assignee_user_id =
                      (IF tasks[t].assignee_user_id # None
                       THEN tasks[t].assignee_user_id ELSE u)
               /\ r.tasks[t].actual_points =
                      (IF p # None THEN p ELSE tasks[t].proposed_points)

\* C19 as amended: ... leaves actual_points equal to the supplied value, or else
\* to the value the task already has, which is never None in these statuses
C19_CompleteSuppliedOrExisting ==
    \A u \in UserIds, t \in TaskIds, p \in SuppliedValues :
        (Member(u, t) /\ tasks[t].status \in {"assigned", "in_progress"})
        => LET r == update_task_status(u, t, "complete", p)
           IN  /\ r.resp = "ok"
               /\ r.tasks[t].status = "completed"
               /\ r.tasks[t].assignee_user_id =
                      (IF tasks[t].assignee_user_id # None
                       THEN tasks[t].assignee_user_id ELSE u)
               /\ tasks[t].actual_points # None
               /\ r.tasks[t].actual_points =
                      (IF p # None THEN p ELSE tasks[t].actual_points)
               /\ r.txs = txs

\* A task was claimed or started with actual_points other than its
\* proposed_points and is ready to be completed
C19_Witness ==
    \E t \in TaskIds :
        /\ tasks[t].status \in {"assigned", "in_progress"}
        /\ tasks[t].actual_points # None
        /\ tasks[t].actual_points # tasks[t].proposed_points
        /\ last.resp = "ok"

----------------------------------------------------------------------------
(* Concurrent approvals: properties *)

\* C20: an approve request that loaded the task as completed and whose lookup
\* found no transaction inserts a payout when it commits, whatever the ledger holds
\* by then: with a second such request the task ends with two transactions
C20_RacePaysTwice ==
    \A req \in inflight :
        (req.pc = "flushed" /\ ~req.has_tx)
        => LET r == commit_task_action(req)
               t == req.task_id
           IN  /\ r.resp = "ok"
               /\ Len(r.txs) = Len(txs) + 1
               /\ r.txs[Len(r.txs)].related_task_id = t
               /\ Cardinality(TxsOfTask(r.txs, t)) = Cardinality(TxsOfTask(txs, t)) + 1

\* Two transactions reference the same approved task
C20_Witness ==
    \E t \in TaskIds :
        /\ tasks[t].status = "approved"
        /\ Cardinality(TxsOfTask(txs, t)) = 2

\* With a database whose queries see what is committed when they run, the write
\* lock orders the two lookups and at most one transaction references a task
LockingPaysOnce ==
    isolation = "locking" => \A t \in TaskIds : Cardinality(TxsOfTask(txs, t)) <= 1

----------------------------------------------------------------------------
(* Accounts: properties *)

\* C17: any two failed logins are answered alike, whichever of household id, email
\* and password was wrong
C17_LoginFailureUniform ==
    \A e1 \in Emails, e2 \in Emails, p1 \in LoginPasswords, p2 \in LoginPasswords,
       h1 \in HouseholdIdInputs \ {None}, h2 \in HouseholdIdInputs \ {None} :
        (login(e1, p1, h1) # "Logged in" /\ login(e2, p2, h2) # "Logged in")
        => login(e1, p1, h1) = login(e2, p2, h2)

\* A join code as it is compared: trimmed, in lower case
NormalCode(code) == Lower(Strip(code))

\* C18: a register request that joins an existing household adds a user only if
\* it supplies a join code equal, trimmed and in lower case, to the household's
\* current one; the user it adds belongs to that household
C18_JoinNeedsCurrentCode ==
    \A e \in Emails, pw \in RegisterPasswords, name \in HouseholdNames,
       nc \in JoinCodeInputs, ec \in JoinCodeInputs, hid \in HouseholdIdInputs,
       token \in TokenValues :
        LET r == register(e, pw, FALSE, name, nc, ec, hid, token)
        IN  /\ r.households = households
            /\ r.users # users
               => /\ hid \in 1..Len(households)
                  /\ ec # NoStr
                  /\ NormalCode(ec) = NormalCode(households[hid].join_code)
                  /\ r.users = Append(users, NewUser(hid, e, pw))

\* A user joined a household whose join code had been replaced in the settings
C18_Witness ==
    /\ last.resp = "Registered and logged in"
    /\ Len(households) = 2
    /\ \E i \in 4..Len(users) :
          /\ users[i].household_id = 2
          /\ households[2].join_code = <<"a">>

----------------------------------------------------------------------------
(* Meal plan tasks *)

MealTasksOf(tk, d, slot) ==
    {t \in 1..Len(tk) : tk[t].meal_plan_day_id = d /\ tk[t].meal_slot = slot}

\* C11: however run_meal_plan_tasks runs are interleaved with meal plan edits,
\* cancellations and days going by, there is at most one Task per meal plan day
\* and slot, now and after one more run by any member
C11_OneTaskPerDaySlot ==
    \A u \in UserIds :
        LET tk == run_meal_plan_tasks(tasks, HouseholdOf(u), u)
        IN  \A d \in 1..Len(days), slot \in MealSlot :
                /\ Cardinality(MealTasksOf(tasks, d, slot)) <= 1
                /\ Cardinality(MealTasksOf(tk, d, slot)) <= 1

\* a generated task was cancelled, its slot is still planned and due, the task of
\* another day was generated too, and one more run adds nothing
C11_Witness ==
    \E t \in 1..Len(tasks), t2 \in 1..Len(tasks) :
        /\ t < t2
        /\ tasks[t].meal_plan_day_id # None
        /\ tasks[t].status = "cancelled"
        /\ SetIdOf(tasks[t].meal_plan_day_id, tasks[t].meal_slot) # None
        /\ HasSelections(tasks[t].meal_plan_day_id, tasks[t].meal_slot)
        /\ days[tasks[t].meal_plan_day_id].day_date <= today
        /\ tasks[t2].meal_plan_day_id \notin {None, tasks[t].meal_plan_day_id}
        /\ run_meal_plan_tasks(tasks, tasks[t].household_id, tasks[t].created_by_user_id) = tasks

----------------------------------------------------------------------------
(* The shopping list of a meal plan *)

\* how often the days and selections of a plan name a menu
Occurrences(plan_id, m) ==
    Cardinality({d \in PlanDays(plan_id) : days[d].lunch_menu_id = m})
    + Cardinality({d \in PlanDays(plan_id) : days[d].dinner_menu_id = m})
    + Cardinality({sel \in selections : sel.meal_plan_day_id \in PlanDays(plan_id)
                                        /\ sel.menu_id = m})

ReferencedBy(plan_id, m) == Occurrences(plan_id, m) > 0

\* the lines with an ingredient of this name and unit, in menus of the plan's
\* household that the plan refers to
ContributingLines(plan_id, name, unit) ==
    {l \in DOMAIN menuLines :
        /\ menuLines[l].menu_id \in DOMAIN menus
        /\ menus[menuLines[l].menu_id].household_id = plans[plan_id].household_id
        /\ ReferencedBy(plan_id, menuLines[l].menu_id)
        /\ menuLines[l].ingredient_id \in DOMAIN ingredients
        /\ ingredients[menuLines[l].ingredient_id].name = name
        /\ ingredients[menuLines[l].ingredient_id].unit = unit}

RECURSIVE SumByOccurrence(_, _)
SumByOccurrence(plan_id, L) ==
    IF L = {}
    THEN 0
    ELSE LET l == CHOOSE x \in L : TRUE
         IN  menuLines[l].quantity * Occurrences(plan_id, menuLines[l].menu_id)
                + SumByOccurrence(plan_id, L \ {l})

\* C12: the aggregated quantity of an ingredient counts every occurrence of a menu:
\* a menu used on two days, or in two slots, contributes its lines twice
C12_CountsOccurrences ==
    \A p \in 1..Len(plans) :
        \A e \in aggregate_meal_plan_ingredients(p) :
            e.quantity = SumByOccurrence(p, ContributingLines(p, e.name, e.unit))

\* C13: the aggregate has one entry per (name, unit) pair, whose quantity is the sum
\* over the lines with that name and unit of the household's menus the plan refers
\* to; the same name with another unit is another entry; menus the plan does not
\* refer to, or of another household, add nothing
C13_GroupsByNameAndUnit ==
    \A p \in 1..Len(plans) :
        LET agg == aggregate_meal_plan_ingredients(p)
        IN  /\ \A e \in agg :
                  /\ ContributingLines(p, e.name, e.unit) # {}
                  /\ e.quantity = SumQuantity(ContributingLines(p, e.name, e.unit))
            /\ \A i \in DOMAIN ingredients :
                  ContributingLines(p, ingredients[i].name, ingredients[i].unit) # {}
                     => \E e \in agg : e.name = ingredients[i].name /\ e.unit = ingredients[i].unit
            /\ \A e1 \in agg, e2 \in agg :
                  (e1.name = e2.name /\ e1.unit = e2.unit) => e1 = e2

\* a plan refers to two menus with salt by the gram (2 and 1), one of them with
\* salt by the millilitre too; the household's miso soup and the other household's
\* menus are not on the list
C13_Witness ==
    \E p \in 1..Len(plans) :
        /\ [name |-> <<"salt">>, unit |-> <<"g">>, quantity |-> 3]
              \in aggregate_meal_plan_ingredients(p)
        /\ [name |-> <<"salt">>, unit |-> <<"ml">>, quantity |-> 2]
              \in aggregate_meal_plan_ingredients(p)
        /\ Cardinality(ContributingLines(p, <<"salt">>, <<"g">>)) = 2
        /\ \A e \in aggregate_meal_plan_ingredients(p) : e.name # <<"miso">>
        /\ \E m \in DOMAIN menus : menus[m].household_id # plans[p].household_id
        /\ last.resp = "Meal plan updated"

----------------------------------------------------------------------------
(* The pantry *)

\* the lines of the household's menus that use an ingredient
LinesUsing(household_id, i) ==
    {l \in DOMAIN menuLines :
        /\ menuLines[l].ingredient_id = i
        /\ \E m \in DOMAIN menus : m = menuLines[l].menu_id /\ menus[m].household_id = household_id}

\* C14: deleting an ingredient that a menu line of the household uses is refused
\* and changes nothing; deleting one of the household that no line uses removes
\* that row and nothing else; an ingredient of another household is answered as
\* not found and nothing is removed
C14_DeleteIngredient ==
    \A u \in UserIds, i \in DOMAIN ingredients :
        LET r == delete_ingredient(u, i)
        IN  IF ingredients[i].household_id # HouseholdOf(u)
            THEN r.resp = "Ingredient not found" /\ r.kitchen = Kitchen
            ELSE IF LinesUsing(HouseholdOf(u), i) # {}
            THEN r.resp = "ingredients.deleteBlocked" /\ r.kitchen = Kitchen
            ELSE /\ r.resp = "Ingredient deleted"
                 /\ DOMAIN r.kitchen.ingredients = DOMAIN ingredients \ {i}
                 /\ \A j \in DOMAIN ingredients \ {i} : r.kitchen.ingredients[j] = ingredients[j]
                 /\ r.kitchen.menus = menus
                 /\ r.kitchen.menuLines = menuLines

\* an unused ingredient has just been deleted, and the household still has an
\* ingredient that a line uses, one that no line uses, and the other household has
\* ingredients too
C14_Witness ==
    /\ last.resp = "Ingredient deleted"
    /\ \E i \in DOMAIN ingredients, j \in DOMAIN ingredients, x \in DOMAIN ingredients :
          /\ ingredients[i].household_id = 1 /\ LinesUsing(1, i) # {}
          /\ ingredients[j].household_id = 1 /\ LinesUsing(1, j) = {}
          /\ ingredients[x].household_id = 2

----------------------------------------------------------------------------
(* Export and import *)

\* the menu book after every menu, menu line and ingredient of a household is deleted
Wiped(k, household_id) ==
    [menus |-> Without(k.menus, get_menus_for_household(k.menus, household_id)),
     menuLines |-> Without(k.menuLines,
                      {l \in DOMAIN k.menuLines :
                          k.menuLines[l].menu_id \in get_menus_for_household(k.menus, household_id)}),
     ingredients |-> Without(k.ingredients,
                        {i \in DOMAIN k.ingredients : k.ingredients[i].household_id = household_id}),
     dishTypes |-> k.dishTypes]

\* what the household exports after export, deletion and import of the export
RoundTrip(household_id) ==
    export_household_data(
        import_data(Wiped(Kitchen, household_id), household_id,
                    export_household_data(Kitchen, household_id)).kitchen,
        household_id)

\* C15: export, delete all menus, lines and ingredients of the household, import the
\* export: every exported menu is there again with the same name and lines of the
\* same ingredient names, quantities and units, and every exported ingredient is
\* there again with its name and unit
C15_ImportRestoresExport ==
    \A h \in 1..Len(households) :
        LET before == export_household_data(Kitchen, h)
            after == RoundTrip(h)
        IN  /\ \A i \in 1..Len(before.menus) :
                  \E j \in 1..Len(after.menus) :
                      /\ after.menus[j].name = before.menus[i].name
                      /\ after.menus[j].ingredients = before.menus[i].ingredients
            /\ \A i \in 1..Len(before.ingredients) :
                  \E j \in 1..Len(after.ingredients) :
                      after.ingredients[j] = before.ingredients[i]

----------------------------------------------------------------------------
(* Recurring rules that lie behind *)

\* an active rule of the household with a template, more than one period behind today
Dormant(i, h) ==
    /\ rules[i].household_id = h
    /\ rules[i].active
    /\ rules[i].task_template_id \in DOMAIN templates
    /\ rules[i].next_run_date + Period(rules[i].frequency) < today

\* C21 as stated: a rule more than one period behind today is moved on by one period
\* by an invocation of run_recurring_rules, so it is still due and the next
\* invocation of the same day creates another task from it
C21_DormantRuleFiresAgain ==
    \A u \in UserIds :
        LET h == HouseholdOf(u)
            first == run_recurring_rules(tasks, rules, h, u)
            second == run_recurring_rules(first.tasks, first.rules, h, u)
        IN  \A i \in RuleIds :
                Dormant(i, h)
                => /\ first.rules[i].next_run_date
                        = rules[i].next_run_date + Period(rules[i].frequency)
                   /\ first.rules[i].next_run_date <= today
                   /\ Cardinality(CreatedFor(second.created, i)) = 1

\* C21, amended: a rule more than one period behind today creates one task at an
\* invocation of run_recurring_rules and is moved to today plus one period, so it
\* is no longer due and the next invocation of the same day creates no task from it
C21_DormantRuleFiresOnce ==
    \A u \in UserIds :
        LET h == HouseholdOf(u)
            first == run_recurring_rules(tasks, rules, h, u)
            second == run_recurring_rules(first.tasks, first.rules, h, u)
        IN  \A i \in RuleIds :
                Dormant(i, h)
                => /\ Cardinality(CreatedFor(first.created, i)) = 1
                   /\ first.rules[i].next_run_date = today + Period(rules[i].frequency)
                   /\ first.rules[i].next_run_date > today
                   /\ CreatedFor(second.created, i) = {}

\* a daily rule lies two days behind, next to a rule that fired today
C21_Witness ==
    /\ \E i \in RuleIds : Dormant(i, rules[i].household_id) /\ rules[i].frequency = "daily"
    /\ \E j \in RuleIds :
          /\ rules[j].next_run_date = today + Period(rules[j].frequency)
          /\ \E t \in 1..Len(tasks) :
                /\ tasks[t].task_template_id = rules[j].task_template_id
                /\ tasks[t].household_id = rules[j].household_id

----------------------------------------------------------------------------
(* Which slots get a meal task *)

\* the tasks a run of run_meal_plan_tasks adds for a day and slot
AddedFor(tk, d, slot) == {t \in MealTasksOf(tk, d, slot) : t > Len(tasks)}

LegacyMenuIdOf(d, slot) ==
    IF slot = "lunch" THEN days[d].lunch_menu_id ELSE days[d].dinner_menu_id

\* C22 as stated: run_meal_plan_tasks creates a task for a (day, slot) of the
\* household exactly when day_date <= today, the slot carries a legacy menu id or
\* a selection, and no task is linked to the (day, slot) yet
C22_TaskForMenuIdOrSelections ==
    \A u \in UserIds :
        LET h == HouseholdOf(u)
            tk == run_meal_plan_tasks(tasks, h, u)
        IN  \A d \in 1..Len(days), slot \in MealSlot :
                plans[days[d].meal_plan_id].household_id = h
                => (AddedFor(tk, d, slot) # {}
                    <=> /\ days[d].day_date <= today
                        /\ (Or(LegacyMenuIdOf(d, slot), None) # None \/ HasSelections(d, slot))
                        /\ MealTasksOf(tasks, d, slot) = {})

\* C22, amended: run_meal_plan_tasks creates a task for a (day, slot) of the
\* household exactly when day_date <= today, the slot carries a meal set template
\* id or a selection, and no task is linked to the (day, slot) yet; it creates one
\* task, with proposed_points 2, priority 2, category meal and status open, and
\* nothing for the days of other households
C22_TaskForSetOrSelections ==
    \A u \in UserIds :
        LET h == HouseholdOf(u)
            tk == run_meal_plan_tasks(tasks, h, u)
        IN  \A d \in 1..Len(days), slot \in MealSlot :
                /\ AddedFor(tk, d, slot) # {}
                    <=> /\ plans[days[d].meal_plan_id].household_id = h
                        /\ days[d].day_date <= today
                        /\ (Or(SetIdOf(d, slot), None) # None \/ HasSelections(d, slot))
                        /\ MealTasksOf(tasks, d, slot) = {}
                /\ Cardinality(AddedFor(tk, d, slot)) <= 1
                /\ \A t \in AddedFor(tk, d, slot) :
                      /\ tk[t].proposed_points = 2
                      /\ tk[t].priority = 2
                      /\ tk[t].category = "meal"
                      /\ tk[t].status = "open"
                      /\ tk[t].household_id = h

\* a meal task was generated for a slot with a set, while a due slot that carries
\* only a legacy menu id has none, and a run adds none
C22_Witness ==
    \E t \in 1..Len(tasks), d \in 1..Len(days) :
        /\ tasks[t].meal_plan_day_id \notin {None, d}
        /\ tasks[t].category = "meal"
        /\ SetIdOf(tasks[t].meal_plan_day_id, tasks[t].meal_slot) # None
        /\ days[d].day_date <= today
        /\ days[d].lunch_menu_id \notin {None, 0}
        /\ days[d].lunch_set_template_id = None
        /\ plans[days[d].meal_plan_id].household_id = tasks[t].household_id
        /\ MealTasksOf(run_meal_plan_tasks(tasks, tasks[t].household_id, tasks[t].created_by_user_id),
                       d, "lunch") = {}

----------------------------------------------------------------------------
(* The lines of a menu after it is saved *)

\* the lines of the form whose name is not blank
NonBlank(rows) == SelectSeq(rows, LAMBDA row : Strip(row.name) # <<>>)

\* the unit a form line asks for
UnitAsked(row) ==
    IF row.unit \in {NoStr, <<>>} \/ Strip(row.unit) = <<>> THEN NoStr ELSE Strip(row.unit)

\* the rows of menu_id in k, in id order, are the non-blank lines of the form
LinesAreExactly(k, menu_id, rows) ==
    LET ids == InIdOrder(LinesOf(k.menuLines, menu_id))
        asked == NonBlank(rows)
    IN  /\ Len(ids) = Len(asked)
        /\ \A i \in 1..Len(ids) :
              LET line == k.menuLines[ids[i]]
              IN  /\ line.ingredient_id \in DOMAIN k.ingredients
                  /\ k.ingredients[line.ingredient_id].name = Strip(asked[i].name)
                  /\ k.ingredients[line.ingredient_id].unit = UnitAsked(asked[i])
                  /\ k.ingredients[line.ingredient_id].household_id = k.menus[menu_id].household_id
                  /\ line.quantity = Float(asked[i].quantity)

\* the rows of the menus other than menu_id are what they were
OtherLinesKept(k, menu_id) ==
    \A l \in DOMAIN menuLines :
        menuLines[l].menu_id # menu_id => l \in DOMAIN k.menuLines /\ k.menuLines[l] = menuLines[l]

\* C23: after a menu is created or edited its MenuIngredient rows are exactly the
\* non-blank ingredient lines of the request, one row per line with its quantity
\* and unit, and the rows of the other menus are unchanged
C23_LinesAreTheSubmittedOnes ==
    /\ \A u \in PlanUsers, m \in MenuIdInputs, name \in MenuNames, dt \in MenuDishTypes,
          rows \in MenuLineInputs :
          LET r == update_menu(u, m, name, dt, rows)
          IN  r.resp = "Menu updated"
              => LinesAreExactly(r.kitchen, m, rows) /\ OtherLinesKept(r.kitchen, m)
    /\ \A name \in MenuNames, rows \in MenuLineInputs :
          LET r == create_menu(Cook, name, None, rows)
          IN  r.resp = "Menu created"
              => /\ LinesAreExactly(r.kitchen, NewId(menus), rows)
                 /\ OtherLinesKept(r.kitchen, NewId(menus))

\* a menu that had two lines was edited and has one
C23_Witness ==
    /\ last.resp = "Menu updated"
    /\ \E m \in DOMAIN menus :
          /\ menus[m].name = <<"stew">>
          /\ Cardinality(LinesOf(menuLines, m)) = 1
          /\ \E l \in LinesOf(menuLines, m) : ingredients[menuLines[l].ingredient_id].name = <<"salt">>
          /\ \E i \in DOMAIN ingredients : ingredients[i].unit = <<"cup">>

----------------------------------------------------------------------------
(* Import twice *)

\* what POST /data/import leaves of the tables ts, for household_id
Imported(ts, household_id, payload) ==
    LET w == import_templates_and_rules(ts.templates, ts.rules, household_id, payload)
    IN  [kitchen |-> import_data(ts.kitchen, household_id, payload).kitchen,
         templates |-> w.templates, rules |-> w.rules]

\* the rows of a table with the same natural key as row x
SameKey(table, x, fields) ==
    {y \in DOMAIN table : \A f \in fields : table[y][f] = table[x][f]}

\* no row of the table after has more rows of its natural key than one, or than
\* there were before
NoSecondRow(before, after, fields) ==
    \A x \in DOMAIN after :
        \/ Cardinality(SameKey(after, x, fields)) = 1
        \/ /\ x \in DOMAIN before
           /\ Cardinality(SameKey(after, x, fields)) = Cardinality(SameKey(before, x, fields))

\* the lines of every menu, in id order
LinesByMenu(k) ==
    [m \in DOMAIN k.menus |->
        LET ids == InIdOrder(LinesOf(k.menuLines, m))
        IN  [i \in 1..Len(ids) |-> k.menuLines[ids[i]]]]

----------------------------------------------------------------------------
(* Import of templates and rules *)

\* the recurring rules of a household for a template of that title, that frequency
\* and that date
RulesFor(tp, rl, household_id, title, frequency, next_run_date) ==
    {r \in 1..Len(rl) : /\ rl[r].household_id = household_id
                        /\ rl[r].task_template_id \in TemplatesWith(tp, household_id, title)
                        /\ rl[r].frequency = frequency
                        /\ rl[r].next_run_date = next_run_date}

\* C25: an import leaves a recurring rule for every rule of the document whose
\* template_title names a task template of the household, one that existed or one
\* the document brings, and skips exactly the rules whose title names no template
\* of the household
C25_RulesOfKnownTemplates ==
    \A u \in PlanUsers, payload \in ImportPayloads :
        LET h == HouseholdOf(u)
            w == import_templates_and_rules(templates, rules, h, payload)
            entries == Get(payload, "recurring_rules")
            known(i) == TemplatesWith(w.templates, h, entries[i].template_title) # {}
        IN  /\ \A i \in 1..Len(entries) :
                  known(i)
                  => \E j \in i..Len(entries) :
                        /\ entries[j].template_title = entries[i].template_title
                        /\ FrequencyOf(entries[j].frequency) = FrequencyOf(entries[i].frequency)
                        /\ RulesFor(w.templates, w.rules, h, entries[i].template_title,
                                    FrequencyOf(entries[i].frequency),
                                    Or(entries[j].next_run_date, today)) # {}
            /\ (\A i \in 1..Len(entries) : ~known(i)) => w.rules = rules

----------------------------------------------------------------------------
(* The ledger only grows *)

\* the step adds the last row of txs' for a task that it approves
AddedByTaskApprove ==
    LET tx == txs'[Len(txs')]
    IN  /\ tx.related_task_id \in 1..Len(tasks)
        /\ tasks[tx.related_task_id].status # "approved"
        /\ tasks'[tx.related_task_id].status = "approved"

\* the step adds the last row of txs' for a reward use that it approves
AddedByRewardApprove ==
    LET tx == txs'[Len(txs')]
    IN  /\ tx.related_reward_use_id \in 1..Len(rewardUses)
        /\ rewardUses[tx.related_reward_use_id].status # "approved"
        /\ rewardUses'[tx.related_reward_use_id].status = "approved"

----------------------------------------------------------------------------
(* Order numbers *)

\* the order numbers of the tasks of one household grow with the task id
OrderedIn(tk) ==
    \A i \in 1..Len(tk), j \in 1..Len(tk) :
        (i < j /\ tk[i].household_id = tk[j].household_id)
        => tk[i].order_number < tk[j].order_number

\* C27: within a household the order numbers are unique and grow in creation
\* order, for the tasks there are and for those one more request adds: the form,
\* or a view that runs the recurring rules and then the meal plans and may create
\* several tasks before it commits
C27_OrderNumbersGrow ==
    /\ OrderedIn(tasks)
    /\ \A u \in UserIds :
          /\ OrderedIn(create_task(u, 2, None, TRUE).tasks)
          /\ OrderedIn(run_meal_plan_tasks(
                          run_recurring_rules(tasks, rules, HouseholdOf(u), u).tasks,
                          HouseholdOf(u), u))

\* a household has a task of the form and a task of a runner, and one more view
\* would create two tasks or more in one invocation
C27_Witness ==
    \E u \in UserIds :
        /\ \E i \in 1..Len(tasks), j \in 1..Len(tasks) :
              /\ tasks[i].household_id = HouseholdOf(u)
              /\ tasks[j].household_id = HouseholdOf(u)
              /\ tasks[i].task_template_id = None /\ tasks[i].meal_plan_day_id = None
              /\ tasks[j].task_template_id # None \/ tasks[j].meal_plan_day_id # None
        /\ Len(run_meal_plan_tasks(run_recurring_rules(tasks, rules, HouseholdOf(u), u).tasks,
                                   HouseholdOf(u), u)) >= Len(tasks) + 2

----------------------------------------------------------------------------
(* Paid out exactly when approved *)

\* the ledger rows that refer to a task
RowsOfTask(t) == {i \in 1..Len(txs) : txs[i].related_task_id = t}

\* C28: after any sequence of task requests a PointTransaction refers to a task
\* exactly if the task's status is approved, so no open, assigned, in_progress,
\* completed or cancelled task has been paid out
C28_PaidIffApproved ==
    \A t \in 1..Len(tasks) : RowsOfTask(t) # {} <=> tasks[t].status = "approved"

\* one task is approved and paid out, another was completed and then cancelled
C28_Witness ==
    \E t \in 1..Len(tasks), c \in 1..Len(tasks) :
        /\ tasks[t].status = "approved"
        /\ RowsOfTask(t) # {}
        /\ tasks[c].status = "cancelled"
        /\ tasks[c].actual_points # None
        /\ RowsOfTask(c) = {}

----------------------------------------------------------------------------
(* Ledger rows and households *)

\* the figure the household page shows for a user: the dict's entry, 0 without one
HouseholdFigure(household_id, u) ==
    LET balances == calculate_household_balance(txs, household_id)
    IN  IF u \in DOMAIN balances THEN balances[u] ELSE 0

\* C29: the user of every PointTransaction is a member of the transaction's
\* household, whatever assignee ids were submitted; so for every member u of a
\* household h, calculate_household_balance(h)[u] is calculate_user_balance(u)
C29_LedgerUserInHousehold ==
    /\ \A i \in 1..Len(txs) :
          /\ txs[i].user_id \in UserIds
          /\ HouseholdOf(txs[i].user_id) = txs[i].household_id
    /\ \A u \in UserIds :
          HouseholdFigure(HouseholdOf(u), u) = calculate_user_balance(txs, u)

----------------------------------------------------------------------------
(* Export with references to deleted rows *)

\* C30: in every state the requests lead to, also after a dish type that a menu
\* refers to or a task template that a recurring rule refers to was deleted, the
\* export of every member's household produces a document
C30_ExportNeverFails ==
    \A u \in UserIds :
        export_data(Kitchen, templates, rules, HouseholdOf(u)).resp = "200"

====
